---------------------------- MODULE Spec2Model ----------------------------
(***************************************************************************)
(* A model of the Clockify -> BigQuery import jobs.                        *)
(*                                                                         *)
(*   src/src/utils.py          upload_to_gcs, load_to_bigquery             *)
(*   src/src/summary/main.py   parse_summary_json, process_batch,          *)
(*                             process_summary_report                      *)
(*   src/src/main.py           clockify_to_bigquery (CSV variant, MERGE    *)
(*                             with a DELETE arm)                          *)
(*                                                                         *)
(* The warehouse tables are bags (multisets) of rows: BigQuery tables have *)
(* no primary key, so the same row can be stored more than once.  Dates    *)
(* are day numbers.  A cell that is SQL NULL / Python None is Null (text   *)
(* columns) or NullNum (numeric columns); a dictionary key that is missing *)
(* from an upstream JSON node is Absent / AbsentNum.                       *)
(***************************************************************************)
EXTENDS Integers, Sequences, FiniteSets, Bags, TLC

VARIABLES
    job,              \* which entry point this behaviour runs
    pc,               \* position of the single worker inside the job
    table,            \* permanent table: bag of rows
    tableExists,      \* whether the permanent table exists
    temp,             \* temporary table: bag of rows
    tempExists,       \* whether the temporary table exists
    batch_data,       \* rows accumulated for the current batch (all_data in main.py)
    staged,           \* rows of the parquet object uploaded to the bucket
    num_rows,         \* row count returned by the last completed load
    err,              \* which step raised ("none" when nothing raised)
    runs,             \* number of calls started so far
    tablePre,         \* history: permanent table when the current call started
    prev,             \* history: the previous call (its batch, outcome, table after)
    start_date,       \* first day of the overall range
    end_date,         \* day after the last day of the overall range
    current_date,     \* loop variable of the day loop
    batch_start_date, \* first day of the batch being accumulated
    batch_number,     \* number of the batch being accumulated
    total_records,    \* sum of process_batch results
    all_data,         \* main.py: the DataFrames read so far, one per fetched day
    windows,          \* history: the (current_date, next_day) windows requested
    closed,           \* history: the batches closed so far
    last_response,    \* history: the answer to the last day-window request
    attempt,          \* upload_to_gcs: loop variable of the retry loop
    uploads,          \* history: calls of blob.upload_from_filename so far
    sleeps,           \* history: the wait times slept, in order
    errors,           \* history: the messages of the failed upload attempts
    raised,           \* message of the exception upload_to_gcs raised (<<>>: none)
    gcs_uri,          \* value upload_to_gcs returned (<<>>: None / nothing yet)
    report,           \* the report parse_summary_json is called with
    env,              \* the environment variables that are set
    page,             \* list jobs: loop variable of the page loop
    all_items,        \* list jobs: raw records collected (all_users, all_projects, ...)
    requests,         \* history: the page requests sent to the upstream API
    responses,        \* history: the answers to them
    result,           \* the string the job returned, in parts (<<>>: none)
    invocations,      \* concurrent runs: the state of each invocation of the job
    temp_loader,      \* history: the invocation whose load filled the temporary table
    overlapped        \* history: an invocation started while another was running

warehouseVars == <<table, tableExists, temp, tempExists>>
callVars      == <<batch_data, staged, num_rows, err, runs, tablePre, prev>>
loopVars      == <<start_date, end_date, current_date, batch_start_date,
                   batch_number, total_records, all_data, windows, closed,
                   last_response>>
uploadVars    == <<attempt, uploads, sleeps, errors, raised, gcs_uri>>
parseVars     == <<report>>
listVars      == <<env, page, all_items, requests, responses, result>>
raceVars      == <<invocations, temp_loader, overlapped>>
otherVars     == <<uploadVars, parseVars, listVars, raceVars>>
vars          == <<job, pc, warehouseVars, callVars, loopVars, otherVars>>

\* no request was answered yet
NoResponse == [status_code |-> 0]

\* the parts of the state a job does not use
NoUpload ==
    /\ attempt = 0
    /\ uploads = 0
    /\ sleeps = <<>>
    /\ errors = <<>>
    /\ raised = <<>>
    /\ gcs_uri = <<>>

NoParse == report = [groupOne |-> <<>>]

EnvNames == {"CLOCKIFY_API_KEY", "CLOCKIFY_WORKSPACE_ID", "GCP_PROJECT_ID",
             "GCS_BUCKET_NAME"}

NoList ==
    /\ env = EnvNames
    /\ page = 1
    /\ all_items = <<>>
    /\ requests = <<>>
    /\ responses = <<>>
    /\ result = <<>>

NoRace ==
    /\ invocations = <<>>
    /\ temp_loader = 0
    /\ overlapped = FALSE

Elsewhere == NoUpload /\ NoParse /\ NoList /\ NoRace

---------------------------------------------------------------------------
(* Cell values *)

Null      == "<null>"
Absent    == "<absent>"
NullNum   == -1
AbsentNum == -2

\* dict.get(key, default): the default only replaces a MISSING key; a key
\* present with the value None yields None.
Get(node, key, default) == IF node[key] = Absent THEN default ELSE node[key]
GetNum(node, key, default) == IF node[key] = AbsentNum THEN default ELSE node[key]

\* A JSON object is a function from its keys to values; a value is a pair
\* of its Python type and its content, so that isinstance(value, dict) can
\* be asked of it.
Scalar(x) == <<"scalar", x>>
Dict(d)   == <<"dict", d>>
List(l)   == <<"list", l>>

IsDict(value) == value[1] = "dict"
IsList(value) == value[1] = "list"
Content(value) == value[2]

None == Scalar(Null)
NaN  == Scalar("<NaN>")    \* the cell pandas fills in for a key a record lacks

RECURSIVE GCD(_, _)
GCD(a, b) == IF b = 0 THEN a ELSE GCD(b, a % b)

\* A non-negative rational as a reduced fraction.
Fraction(n, d) == LET g == GCD(n, d) IN [num |-> n \div g, den |-> d \div g]
Zero == [num |-> 0, den |-> 1]

MS_PER_HOUR == 3600000

\* a null duration stays null
TimeDecimalNullable(duration) ==
    IF duration = 0 THEN Zero
    ELSE IF duration = NullNum THEN [num |-> NullNum, den |-> 1]
    ELSE Fraction(duration, MS_PER_HOUR)

\* `duration / 3600000 if duration else 0`
TimeDecimal(duration) ==
    IF duration = NullNum \/ duration = 0 THEN Zero
    ELSE Fraction(duration, MS_PER_HOUR)

---------------------------------------------------------------------------
(* Bags of rows *)

RECURSIVE SumCopies(_, _)
SumCopies(S, B) ==
    IF S = {} THEN 0
    ELSE LET x == CHOOSE y \in S : TRUE
         IN  B[x] + SumCopies(S \ {x}, B)

\* The rows of bag B that lie in the set rows, with their multiplicities.
Restrict(B, rows) == [x \in rows |-> B[x]]

RECURSIVE SeqToBag(_)
SeqToBag(s) ==
    IF s = <<>> THEN EmptyBag
    ELSE SetToBag({Head(s)}) (+) SeqToBag(Tail(s))

Size(B) == SumCopies(DOMAIN B, B)

---------------------------------------------------------------------------
(* Upstream summary-report payloads (JSON variant) *)

\* Group nodes of the report: groupOne = USER, children = PROJECT, whose
\* children = TAG.
TagGroup(id, name, duration, amount) ==
    [_id |-> id, name |-> name, duration |-> duration, amount |-> amount]

ProjectGroup(id, name, clientId, clientName, duration, amount, children) ==
    [_id |-> id, name |-> name, clientId |-> clientId, clientName |-> clientName,
     duration |-> duration, amount |-> amount, children |-> children]

UserGroup(id, name, children) == [_id |-> id, name |-> name, children |-> children]

Report(groupOne) == [groupOne |-> groupOne]

HOUR == MS_PER_HOUR

PayloadEmpty == Report(<<>>)

\* one user, one project of client c1, no tag children
PayloadOne ==
    Report(<<UserGroup("u1", "Ann", <<
        ProjectGroup("p1", "Site", "c1", "Acme", HOUR, 100, <<>>)>>)>>)

\* the same entry as PayloadOne after it was edited upstream
PayloadOneEdited ==
    Report(<<UserGroup("u1", "Ann", <<
        ProjectGroup("p1", "Site", "c1", "Acme", 2 * HOUR, 200, <<>>)>>)>>)

\* one record with two leaf groups (two tags with different names)
PayloadTwoLeaves ==
    Report(<<UserGroup("u1", "Ann", <<
        ProjectGroup("p1", "Site", "c1", "Acme", 3 * HOUR, 300, <<
            TagGroup("t1", "dev", HOUR, 100),
            TagGroup("t2", "ops", 2 * HOUR, 200)>>)>>)>>)

\* two tags with different ids and the same name
PayloadSameTagName ==
    Report(<<UserGroup("u1", "Ann", <<
        ProjectGroup("p1", "Site", "c1", "Acme", 3 * HOUR, 300, <<
            TagGroup("t1", "dev", HOUR, 100),
            TagGroup("t3", "dev", 2 * HOUR, 200)>>)>>)>>)

\* a project that has no client: clientId and clientName are JSON null
PayloadNoClient ==
    Report(<<UserGroup("u1", "Ann", <<
        ProjectGroup("p2", "Misc", Null, Null, HOUR \div 2, 0, <<>>)>>)>>)

\* a user group without project children, next to one with a project whose
\* duration is null and whose name / client keys are missing
PayloadSparse ==
    Report(<<UserGroup("u2", "Bob", <<>>),
             UserGroup("u1", Absent, <<
        ProjectGroup("p1", Absent, Absent, Absent, NullNum, AbsentNum, <<>>)>>)>>)

Payloads == {PayloadEmpty, PayloadOne, PayloadOneEdited, PayloadTwoLeaves,
             PayloadSameTagName, PayloadNoClient, PayloadSparse}

---------------------------------------------------------------------------
(* summary/main.py: parse_summary_json *)

Columns == {"user_id", "user", "project_id", "project", "client_id", "client",
            "tag_id", "tags", "duration_ms", "time_decimal", "amount_eur", "date"}

\* the record appended for one tag group (lines 55-74)
TagRecord(user_group, project_group, tag_group, date) ==
    LET duration == GetNum(tag_group, "duration", 0)
    IN  [user_id      |-> Get(user_group, "_id", Null),
         user         |-> Get(user_group, "name", ""),
         project_id   |-> Get(project_group, "_id", Null),
         project      |-> Get(project_group, "name", ""),
         client_id    |-> Get(project_group, "clientId", Null),
         client       |-> Get(project_group, "clientName", ""),
         tag_id       |-> Get(tag_group, "_id", Null),
         tags         |-> Get(tag_group, "name", ""),
         duration_ms  |-> duration,
         time_decimal |-> TimeDecimal(duration),
         amount_eur   |-> GetNum(tag_group, "amount", 0),
         date         |-> date]

\* the record appended for a project group without tag children (lines 75-93)
ProjectRecord(user_group, project_group, date) ==
    LET duration == GetNum(project_group, "duration", 0)
    IN  [user_id      |-> Get(user_group, "_id", Null),
         user         |-> Get(user_group, "name", ""),
         project_id   |-> Get(project_group, "_id", Null),
         project      |-> Get(project_group, "name", ""),
         client_id    |-> Get(project_group, "clientId", Null),
         client       |-> Get(project_group, "clientName", ""),
         tag_id       |-> Null,
         tags         |-> "",
         duration_ms  |-> duration,
         time_decimal |-> TimeDecimal(duration),
         amount_eur   |-> GetNum(project_group, "amount", 0),
         date         |-> date]

RECURSIVE TagRecords(_, _, _, _)
TagRecords(user_group, project_group, tag_groups, date) ==
    IF tag_groups = <<>> THEN <<>>
    ELSE <<TagRecord(user_group, project_group, Head(tag_groups), date)>>
         \o TagRecords(user_group, project_group, Tail(tag_groups), date)

RECURSIVE ProjectRecords(_, _, _)
ProjectRecords(user_group, project_groups, date) ==
    IF project_groups = <<>> THEN <<>>
    ELSE LET project_group == Head(project_groups)
             tag_groups    == project_group.children
         IN  (IF tag_groups # <<>>
              THEN TagRecords(user_group, project_group, tag_groups, date)
              ELSE <<ProjectRecord(user_group, project_group, date)>>)
             \o ProjectRecords(user_group, Tail(project_groups), date)

RECURSIVE UserRecords(_, _)
UserRecords(group_one, date) ==
    IF group_one = <<>> THEN <<>>
    ELSE ProjectRecords(Head(group_one), Head(group_one).children, date)
         \o UserRecords(Tail(group_one), date)

parse_summary_json(data, date) == UserRecords(data.groupOne, date)

---------------------------------------------------------------------------
(* The MERGE statements *)

NumericColumns == {"duration_ms", "amount_eur", "date"}
\* the NULL of a column; the id column of the list tables holds JSON values
NullOf(col) ==
    IF col \in NumericColumns THEN NullNum
    ELSE IF col = "id" THEN None
    ELSE Null

\* SQL `T.col = S.col`: a comparison with NULL is not true.
SqlEq(col, a, b) == a # NullOf(col) /\ b # NullOf(col) /\ a = b

\* on_clause: " AND ".join(f"T.{key} = S.{key}" for key in merge_keys)
OnClause(t, s, keys) == \A key \in keys : SqlEq(key, t[key], s[key])

Matches(t, S, keys) == {s \in DOMAIN S : OnClause(t, s, keys)}

\* update_set: every column that is not a merge key is taken from S
UpdateSet(t, s, keys) == [col \in DOMAIN t |-> IF col \in keys THEN t[col] ELSE s[col]]

\* BigQuery rejects a MERGE in which a target row matches more than one
\* source row ("UPDATE/MERGE must match at most one source row for each
\* target row"); nothing is changed then.
MergeRejected(T, S, keys) ==
    \E t \in DOMAIN T : SumCopies(Matches(t, S, keys), S) > 1

\* WHEN MATCHED THEN UPDATE SET ...
WhenMatched(T, S, keys) ==
    LET matched    == {t \in DOMAIN T : Matches(t, S, keys) # {}}
        Updated(t) == UpdateSet(t, CHOOSE s \in Matches(t, S, keys) : TRUE, keys)
    IN  [r \in {Updated(t) : t \in matched} |->
            SumCopies({t \in matched : Updated(t) = r}, T)]

\* WHEN NOT MATCHED BY TARGET THEN INSERT ... VALUES ...
NotMatchedByTarget(T, S, keys) ==
    Restrict(S, {s \in DOMAIN S : \A t \in DOMAIN T : ~OnClause(t, s, keys)})

\* the target rows that no source row matches
NotMatchedBySource(T, S, keys) ==
    Restrict(T, {t \in DOMAIN T : Matches(t, S, keys) = {}})

\* merge_query with an arm WHEN NOT MATCHED BY SOURCE THEN DELETE added
merge_query_with_delete(T, S, keys) ==
    WhenMatched(T, S, keys) (+) NotMatchedByTarget(T, S, keys)

\* merge_query without the arm WHEN NOT MATCHED BY TARGET THEN INSERT
merge_query_no_insert(T, S, keys) ==
    WhenMatched(T, S, keys) (+) NotMatchedBySource(T, S, keys)

\* utils.py, merge_query of load_to_bigquery: no arm for NOT MATCHED BY SOURCE
merge_query(T, S, keys) ==
    WhenMatched(T, S, keys) (+) NotMatchedBySource(T, S, keys)
        (+) NotMatchedByTarget(T, S, keys)

\* SQL `x BETWEEN lo AND hi` includes both ends
Between(x, lo, hi) == lo <= x /\ x <= hi

CsvMergeKeys == {"date", "user", "project"}

\* merge_query_delete with the NOT MATCHED BY SOURCE arm left out
merge_query_delete_no_arm(T, S, start, end) ==
    WhenMatched(T, S, CsvMergeKeys)
        (+) NotMatchedBySource(T, S, CsvMergeKeys)
        (+) NotMatchedByTarget(T, S, CsvMergeKeys)

\* main.py, merge_query of clockify_to_bigquery:
\* WHEN NOT MATCHED BY SOURCE AND T.date BETWEEN start AND end THEN DELETE
merge_query_delete(T, S, start, end) ==
    WhenMatched(T, S, CsvMergeKeys)
        (+) Restrict(T, {t \in DOMAIN T : /\ Matches(t, S, CsvMergeKeys) = {}
                                          /\ ~Between(t.date, start, end)})
        (+) NotMatchedByTarget(T, S, CsvMergeKeys)

\* the merge-key values of a row, and the key values held by a bag
KeyOf(r, keys) == [key \in keys |-> r[key]]
KeysIn(B, keys) == {KeyOf(r, keys) : r \in DOMAIN B}

---------------------------------------------------------------------------
(* Bounds *)

MaxRuns == 2          \* process_batch calls in one behaviour of SpecLoad

BatchDates == {1, 2}  \* the days the batches of SpecLoad are fetched for

---------------------------------------------------------------------------
(* summary/main.py process_batch and utils.py load_to_bigquery, step by     *)
(* step.  Every call to the bucket or the warehouse either succeeds or      *)
(* raises; an exception is not caught anywhere below the job boundary, so   *)
(* it ends the call where it is.                                            *)

ListJobs == {"process_users", "process_projects", "process_clients"}

SummaryMergeKeys == {"user_id", "project_id", "client", "tags", "date"}

NoCall == [batch |-> <<>>, ok |-> FALSE, after |-> EmptyBag, temp |-> EmptyBag]

\* the exception is swallowed and the call counts as completed
RaiseSwallowed(step) == /\ pc' = "done"
                        /\ err' = step

\* an exception leaves the job: nothing catches it but the handlers that
\* log and re-raise (summary/main.py lines 246-248, 264-266)
Raise(step) == /\ pc' = "raised"
               /\ err' = step

\* process_batch is entered with the rows parsed from one day's report
\* (lines 133-137: an empty batch returns 0 at once)
ProcessBatchCall ==
    /\ job = "process_batch"
    /\ pc = "idle"
    /\ runs < MaxRuns
    /\ \E data \in Payloads, date \in BatchDates :
          batch_data' = parse_summary_json(data, date)
    /\ runs' = runs + 1
    /\ tablePre' = table
    /\ err' = "none"
    /\ staged' = <<>>
    /\ pc' = IF batch_data' = <<>> THEN "returned" ELSE "upload"
    /\ UNCHANGED <<otherVars, job, warehouseVars, num_rows, prev, loopVars>>

\* upload_to_gcs(batch_df, ...) (line 149): the object holds the rows of the
\* DataFrame, or the call raises
UploadToGcs ==
    /\ job \in {"process_batch", "process_summary_report"} \cup ListJobs
    /\ pc = "upload"
    /\ \/ /\ staged' = batch_data
          /\ pc' = "load"
          /\ err' = err
       \/ /\ Raise("upload")
          /\ staged' = staged
    /\ UNCHANGED <<otherVars, job, warehouseVars, batch_data, num_rows, runs, tablePre, prev, loopVars>>

\* the rows are added to those of the destination table
WriteAppend(old, new) == old (+) new

\* write_disposition = WRITE_TRUNCATE: the loaded rows replace those of the
\* destination table
WriteTruncate(old, new) == new

\* load_table_from_uri with WRITE_TRUNCATE (utils.py lines 83-95)
LoadTemp ==
    /\ pc = "load"
    /\ \/ /\ temp' = WriteTruncate(temp, SeqToBag(staged))
          /\ tempExists' = TRUE
          /\ pc' = "ensure"
          /\ err' = err
       \/ /\ Raise("load")
          /\ UNCHANGED <<temp, tempExists>>
    /\ UNCHANGED <<otherVars, job, table, tableExists, batch_data, staged, num_rows, runs,
                   tablePre, prev, loopVars>>

\* get_table / create_table (utils.py lines 97-104).  Any exception of
\* get_table is taken to mean that the table is missing; create_table then
\* raises if the table is there after all.
EnsureTable ==
    /\ pc = "ensure"
    /\ \/ /\ tableExists
          /\ pc' = "merge"
          /\ err' = err
          /\ UNCHANGED <<table, tableExists>>
       \/ /\ ~tableExists
          /\ tableExists' = TRUE
          /\ table' = EmptyBag
          /\ pc' = "merge"
          /\ err' = err
       \/ /\ Raise("ensure")
          /\ UNCHANGED <<table, tableExists>>
    /\ UNCHANGED <<otherVars, job, temp, tempExists, batch_data, staged, num_rows, runs,
                   tablePre, prev, loopVars>>

\* merge_job = client.query(merge_query); merge_job.result() (lines 116-129)
Merge ==
    /\ job \in {"process_batch", "process_summary_report"}
    /\ pc = "merge"
    /\ \/ /\ tempExists
          /\ ~MergeRejected(table, temp, SummaryMergeKeys)
          /\ table' = merge_query(table, temp, SummaryMergeKeys)
          /\ pc' = "drop"
          /\ err' = err
       \/ /\ Raise("merge")
          /\ table' = table
    /\ UNCHANGED <<otherVars, job, tableExists, temp, tempExists, batch_data, staged, num_rows,
                   runs, tablePre, prev, loopVars>>

\* client.delete_table(temp_table_id, not_found_ok=True) (line 132)
DropTemp ==
    /\ pc = "drop"
    /\ \/ /\ tempExists' = FALSE
          /\ temp' = EmptyBag
          /\ pc' = "count"
          /\ err' = err
       \/ /\ Raise("drop")
          /\ UNCHANGED <<temp, tempExists>>
    /\ UNCHANGED <<otherVars, job, table, tableExists, batch_data, staged, num_rows, runs,
                   tablePre, prev, loopVars>>

\* table = client.get_table(table_id); return table.num_rows (lines 136-137)
GetCount ==
    /\ pc = "count"
    /\ \/ /\ num_rows' = Size(table)
          /\ pc' = "done"
          /\ err' = err
       \/ /\ Raise("count")
          /\ num_rows' = num_rows
    /\ UNCHANGED <<otherVars, job, warehouseVars, batch_data, staged, runs, tablePre, prev, loopVars>>

\* process_batch is over (returned or raised); the job may be triggered again
ProcessBatchEnd ==
    /\ job = "process_batch"
    /\ pc \in {"done", "raised", "returned"}
    /\ prev' = [batch |-> batch_data, ok |-> (pc = "done"), after |-> table,
                temp |-> temp]
    /\ pc' = "idle"
    /\ UNCHANGED <<otherVars, job, warehouseVars, batch_data, staged, num_rows, err, runs,
                   tablePre, loopVars>>

InitWarehouse ==
    /\ table = EmptyBag
    /\ tableExists = FALSE
    /\ temp = EmptyBag
    /\ tempExists = FALSE

InitCall ==
    /\ batch_data = <<>>
    /\ staged = <<>>
    /\ num_rows = 0
    /\ err = "none"
    /\ runs = 0
    /\ tablePre = EmptyBag
    /\ prev = NoCall

NoLoop ==
    /\ start_date = 0
    /\ end_date = 0
    /\ current_date = 0
    /\ batch_start_date = 0
    /\ batch_number = 1
    /\ total_records = 0
    /\ all_data = <<>>
    /\ windows = <<>>
    /\ closed = <<>>
    /\ last_response = NoResponse

InitLoad ==
    /\ job = "process_batch"
    /\ pc = "idle"
    /\ InitWarehouse
    /\ InitCall
    /\ NoLoop
    /\ Elsewhere

NextLoad ==
    \/ ProcessBatchCall
    \/ UploadToGcs
    \/ LoadTemp
    \/ EnsureTable
    \/ Merge
    \/ DropTemp
    \/ GetCount
    \/ ProcessBatchEnd

SpecLoad == InitLoad /\ [][NextLoad]_vars

---------------------------------------------------------------------------
(* Properties of process_batch / load_to_bigquery (SpecLoad) *)

\* rows i < j of a batch that carry the same merge-key values
SameKeyPair(batch, keys) ==
    \E i, j \in 1..Len(batch) : i < j /\ KeyOf(batch[i], keys) = KeyOf(batch[j], keys)

\* C1: merge idempotence.  When a load+merge has completed and the call
\* before it completed with the same source rows, the permanent table is
\* what it was after the first of the two calls: the second call inserts no
\* row and the row count is unchanged.
C1_MergeIdempotent ==
    (job = "process_batch" /\ pc = "done" /\ prev.ok /\ prev.batch = batch_data)
        => (table = prev.after /\ Size(table) = Size(prev.after))

\* C4: no deletion in the add/update-only merge.  No step of any call of
\* load_to_bigquery removes a merge key from the permanent table: the set of
\* keys it holds only grows.
C4_KeysOnlyGrow ==
    [][KeysIn(table, SummaryMergeKeys) \subseteq KeysIn(table', SummaryMergeKeys)]_vars

\* C4 witness: the MERGE has run on a permanent table that held a key the
\* source does not hold, and that key is still there.
C4_Witness ==
    /\ job = "process_batch"
    /\ pc = "drop"
    /\ temp # EmptyBag
    /\ \E k \in KeysIn(tablePre, SummaryMergeKeys) :
          /\ k \notin KeysIn(temp, SummaryMergeKeys)
          /\ k \in KeysIn(table, SummaryMergeKeys)

\* C5: update/insert semantics.  After the MERGE, (a) every row of the
\* permanent table whose key is also a key of the source equals the source
\* row of that key; (b) for every key that was only in the source there is
\* exactly one row in the permanent table, equal to the source row; (c) the
\* rows whose key is not in the source are as they were before the call.
C5_UpdateInsertSemantics ==
    (job = "process_batch" /\ pc = "drop") =>
        /\ \A r \in DOMAIN table, s \in DOMAIN temp :
              KeyOf(r, SummaryMergeKeys) = KeyOf(s, SummaryMergeKeys) => r = s
        /\ \A s \in DOMAIN temp :
              KeyOf(s, SummaryMergeKeys) \notin KeysIn(tablePre, SummaryMergeKeys)
                  => (s \in DOMAIN table /\ table[s] = 1)
        /\ \A t \in DOMAIN tablePre :
              KeyOf(t, SummaryMergeKeys) \notin KeysIn(temp, SummaryMergeKeys)
                  => (t \in DOMAIN table /\ table[t] = tablePre[t])

\* C6: temporary-table cleanup on exit.  When a call that has loaded the
\* temporary table ends, by returning or by raising in the ensure-table
\* step, the MERGE or the row-count query, the temporary table is gone.
C6_TempDroppedOnExit ==
    (job = "process_batch" /\ pc \in {"done", "raised"}
        /\ err \in {"none", "ensure", "merge", "count"})
        => ~tempExists

\* C7: deduplication before load.  The temporary table never holds two rows
\* with the same merge key.
C7_TempKeysUnique ==
    tempExists =>
        /\ \A r \in DOMAIN temp : temp[r] = 1
        /\ \A r1, r2 \in DOMAIN temp :
              KeyOf(r1, SummaryMergeKeys) = KeyOf(r2, SummaryMergeKeys) => r1 = r2

\* C8: merge-key uniqueness within a batch.  No two rows of a batch handed
\* to load_to_bigquery agree on (user_id, project_id, client, tags, date).
C8_BatchKeysUnique ==
    (job = "process_batch" /\ pc \in {"upload", "load"})
        => ~SameKeyPair(batch_data, SummaryMergeKeys)

---------------------------------------------------------------------------
(* main.py: clockify_to_bigquery (CSV variant) *)

MaxInitRows == 3      \* rows the permanent table holds before the job runs

CsvRangeDays == {0, 1, 2}   \* lengths of the range, standing for weeks=8

\* one line of a day's CSV report, under the cleaned German column names
CsvLine(user, client, amount) ==
    [benutzer |-> user, projekt |-> "Site", kunde |-> client,
     zeit_h |-> "01:00:00", zeit_dezimal |-> 1, betrag_eur |-> amount]

\* the CSV bodies the upstream may answer a day's request with
CsvFiles == {<<>>,
             <<CsvLine("Bob", "Acme", 200)>>,
             <<CsvLine("Ann", "Acme", 200), CsvLine("Bob", "Acme", 200)>>,
             <<CsvLine("Ann", "Acme", 200), CsvLine("Ann", "Zeta", 50)>>}

\* `if response.status_code == 201`
StatusCreated(response) == response.status_code = 201

\* `if response.status_code == 200` (main.py line 55, summary/main.py line 122)
StatusOk(response) == response.status_code = 200

\* request_summary_report (lines 53-64): the file on status 200, else None
CsvResponses ==
    {[status_code |-> 200, content |-> f] : f \in CsvFiles}
        \cup {[status_code |-> 500, content |-> <<>>]}

\* df['date'] = current_date.date() and the rename by column_mapping
CsvRow(line, date) ==
    [user |-> line.benutzer, project |-> line.projekt, client |-> line.kunde,
     time_hours |-> line.zeit_h, time_decimal |-> line.zeit_dezimal,
     amount_eur |-> line.betrag_eur, date |-> date]

RECURSIVE DataFrame(_, _)
DataFrame(lines, date) ==
    IF lines = <<>> THEN <<>>
    ELSE <<CsvRow(Head(lines), date)>> \o DataFrame(Tail(lines), date)

\* pd.concat(all_data, ignore_index=True)
RECURSIVE Concat(_)
Concat(dfs) == IF dfs = <<>> THEN <<>> ELSE Head(dfs) \o Concat(Tail(dfs))

\* current_date + timedelta(days=1)
NextDaySkipping(d) == d + 2
NextDay(d) == d + 1

\* while current_date < end_date
InRange(current, end) == current < end

\* The permanent table is an external, durable table: what it holds when
\* the job starts is an input of the job.
StoredCsvRows(first, last) ==
    {CsvRow(CsvLine(u, "Acme", 100), d) : u \in {"Ann", "Bob"}, d \in first..last}

InitCsv ==
    /\ job = "clockify_to_bigquery"
    /\ pc = "fetch"
    /\ \E len \in CsvRangeDays :
          /\ end_date = 3
          /\ start_date = end_date - len
    /\ current_date = start_date
    /\ \E rows \in SUBSET StoredCsvRows(start_date - 1, end_date) :
          /\ Cardinality(rows) <= MaxInitRows
          /\ table = SetToBag(rows)
          /\ tableExists \in (IF rows = {} THEN BOOLEAN ELSE {TRUE})
    /\ temp = EmptyBag
    /\ tempExists = FALSE
    /\ InitCall
    /\ batch_start_date = start_date
    /\ batch_number = 1
    /\ total_records = 0
    /\ all_data = <<>>
    /\ windows = <<>>
    /\ closed = <<>>
    /\ last_response = NoResponse
    /\ Elsewhere

\* one iteration of the day loop (lines 91-103)
CsvFetchDay ==
    /\ job = "clockify_to_bigquery"
    /\ pc = "fetch"
    /\ InRange(current_date, end_date)
    /\ LET next_day == NextDay(current_date)
       IN  /\ windows' = Append(windows, <<current_date, next_day>>)
           /\ \E response \in CsvResponses :
                 /\ all_data' = IF StatusOk(response)
                                THEN Append(all_data,
                                            DataFrame(response.content, current_date))
                                ELSE all_data
                 /\ last_response' = response
           /\ current_date' = next_day
    /\ UNCHANGED <<otherVars, job, pc, warehouseVars, callVars, start_date, end_date,
                   batch_start_date, batch_number, total_records, closed>>

\* after the loop (lines 105-138): no DataFrame at all raises, otherwise the
\* frames are combined into the rows of the parquet file
CsvCombine ==
    /\ job = "clockify_to_bigquery"
    /\ pc = "fetch"
    /\ ~InRange(current_date, end_date)
    /\ runs' = runs + 1
    /\ tablePre' = table
    /\ IF all_data = <<>>
       THEN /\ Raise("no data")
            /\ batch_data' = batch_data
       ELSE /\ batch_data' = Concat(all_data)
            /\ pc' = "upload"
            /\ err' = err
    /\ UNCHANGED <<otherVars, job, warehouseVars, staged, num_rows, prev, loopVars>>

\* blob.upload_from_filename(parquet_file) (lines 140-150), no retry
CsvUpload ==
    /\ job = "clockify_to_bigquery"
    /\ pc = "upload"
    /\ \/ /\ staged' = batch_data
          /\ pc' = "load"
          /\ err' = err
       \/ /\ Raise("upload")
          /\ staged' = staged
    /\ UNCHANGED <<otherVars, job, warehouseVars, batch_data, num_rows, runs, tablePre, prev, loopVars>>

\* the MERGE with the DELETE arm (lines 189-211)
CsvMerge ==
    /\ job = "clockify_to_bigquery"
    /\ pc = "merge"
    /\ \/ /\ tempExists
          /\ ~MergeRejected(table, temp, CsvMergeKeys)
          /\ table' = merge_query_delete(table, temp, start_date, end_date)
          /\ pc' = "drop"
          /\ err' = err
       \/ /\ Raise("merge")
          /\ table' = table
    /\ UNCHANGED <<otherVars, job, tableExists, temp, tempExists, batch_data, staged, num_rows,
                   runs, tablePre, prev, loopVars>>

NextCsv ==
    \/ CsvFetchDay
    \/ CsvCombine
    \/ CsvUpload
    \/ LoadTemp
    \/ EnsureTable
    \/ CsvMerge
    \/ DropTemp
    \/ GetCount

SpecCsv == InitCsv /\ [][NextCsv]_vars

---------------------------------------------------------------------------
(* Properties of clockify_to_bigquery (SpecCsv) *)

\* the covered window: the days for which a day window was fetched
InWindow(d) == start_date <= d /\ d < end_date

\* C2: merge completeness with deletion enabled.  When the MERGE has run on
\* a permanent table all of whose rows are dated inside the covered window,
\* the table holds exactly the keys of the source, every row equal to a
\* source row: the keys in both carry the source's values, the keys only in
\* the source are inserted, the keys only in the target are removed.
C2_MergeCompleteness ==
    (job = "clockify_to_bigquery" /\ pc = "drop"
        /\ \A t \in DOMAIN tablePre : InWindow(t.date))
        => /\ KeysIn(table, CsvMergeKeys) = KeysIn(temp, CsvMergeKeys)
           /\ \A r \in DOMAIN table : r \in DOMAIN temp

\* C2 witness: target keys {A,B,C}, source keys {B,C,D}; A is inside the
\* window, B and C are stored with other values than the source carries.
C2_Witness ==
    /\ job = "clockify_to_bigquery"
    /\ pc = "drop"
    /\ \A t \in DOMAIN tablePre : InWindow(t.date)
    /\ LET target == KeysIn(tablePre, CsvMergeKeys)
           source == KeysIn(temp, CsvMergeKeys)
       IN  /\ Cardinality(target) = 3
           /\ Cardinality(source) = 3
           /\ Cardinality(target \cap source) = 2
           /\ \A t \in DOMAIN tablePre : t \notin DOMAIN temp
           /\ KeysIn(table, CsvMergeKeys) = source

\* C3: deletion scoping.  After the MERGE every row of the permanent table
\* dated outside [start_date, end_date) is still there, unchanged.
C3_DeletionScoped ==
    (job = "clockify_to_bigquery" /\ pc = "drop")
        => \A t \in DOMAIN tablePre :
              ~InWindow(t.date) => (t \in DOMAIN table /\ table[t] = tablePre[t])

---------------------------------------------------------------------------
(* summary/main.py: process_summary_report *)

MaxDataDays == 2      \* day windows of one run that return rows

\* lengths of the range in days, standing for weeks=26: none, a few days,
\* around one batch, and two batches and a day
SummaryRangeDays == {0, 1, 2, 27, 28, 29, 57}

BATCH_SIZE_WEEKS == 4
DAYS_PER_WEEK == 7

\* the reports the upstream answers a day's request with in the day loop
LoopPayloads == {PayloadEmpty, PayloadTwoLeaves}

\* the windows of a run, counted from start_date, whose request the
\* upstream may answer with an error: the first two and the one that closes
\* the first batch
FailingWindows == {0, 1, BATCH_SIZE_WEEKS * DAYS_PER_WEEK - 1}

\* request_summary_report (lines 120-131): the JSON on status 200, else None
SummaryResponses ==
    {[status_code |-> 200, data |-> p] : p \in LoopPayloads}
        \cup {[status_code |-> 500, data |-> PayloadEmpty]}

\* weeks_processed = (current_date - batch_start_date).days / 7
\* weeks_processed >= BATCH_SIZE_WEEKS or current_date >= end_date
\* (a true division: days / 7 >= 4 exactly when days >= 4 * 7)
BatchCompleteLate(current, batch_start, end) ==
    \/ current - batch_start > BATCH_SIZE_WEEKS * DAYS_PER_WEEK
    \/ current >= end
BatchComplete(current, batch_start, end) ==
    \/ current - batch_start >= BATCH_SIZE_WEEKS * DAYS_PER_WEEK
    \/ current >= end

\* the rows handed to process_batch so far and the rows waiting for it
RECURSIVE ClosedRows(_)
ClosedRows(batches) ==
    IF batches = <<>> THEN <<>> ELSE Head(batches).rows \o ClosedRows(Tail(batches))

RowDates(rows) == {rows[i].date : i \in 1..Len(rows)}

DataDays == Cardinality(RowDates(ClosedRows(closed)) \cup RowDates(batch_data))

InitSummary ==
    /\ job = "process_summary_report"
    /\ pc = "fetch"
    /\ InitWarehouse
    /\ InitCall
    /\ \E len \in SummaryRangeDays :
          /\ end_date = 60
          /\ start_date = end_date - len
    /\ current_date = start_date
    /\ batch_start_date = start_date
    /\ batch_number = 1
    /\ total_records = 0
    /\ all_data = <<>>
    /\ windows = <<>>
    /\ closed = <<>>
    /\ last_response = NoResponse
    /\ Elsewhere

\* one iteration of the day loop (lines 207-234), up to the point where
\* process_batch has something to upload
SummaryFetchDay ==
    /\ job = "process_summary_report"
    /\ pc = "fetch"
    /\ InRange(current_date, end_date)
    /\ \E response \in SummaryResponses :
        LET next_day == NextDay(current_date)
            records  == IF StatusOk(response)
                        THEN parse_summary_json(response.data, current_date)
                        ELSE <<>>
            batch    == batch_data \o records
        IN  /\ records # <<>> => DataDays < MaxDataDays
            /\ response.status_code # 200 =>
                  current_date - start_date \in FailingWindows
            /\ last_response' = response
            /\ windows' = Append(windows, <<current_date, next_day>>)
            /\ current_date' = next_day
            /\ IF BatchComplete(next_day, batch_start_date, end_date)
               THEN /\ closed' = Append(closed,
                                    [number |-> batch_number, first |-> batch_start_date,
                                     last |-> next_day, rows |-> batch, final |-> FALSE])
                    /\ IF batch = <<>>
                       THEN \* process_batch returns 0 at once; reset for the next batch
                            /\ batch_data' = <<>>
                            /\ batch_number' = batch_number + 1
                            /\ batch_start_date' = next_day
                            /\ UNCHANGED <<pc, runs, tablePre>>
                       ELSE /\ batch_data' = batch
                            /\ pc' = "upload"
                            /\ runs' = runs + 1
                            /\ tablePre' = table
                            /\ UNCHANGED <<batch_number, batch_start_date>>
               ELSE /\ batch_data' = batch
                    /\ UNCHANGED <<pc, runs, tablePre, closed, batch_number,
                                   batch_start_date>>
    /\ UNCHANGED <<otherVars, job, warehouseVars, staged, num_rows, err, prev, start_date,
                   end_date, total_records, all_data>>

\* result = f"Updated summary report data for date range {start_date.date()}
\* to {end_date.date()}. Processed {total_records} total records in
\* {batch_number} batches" (line 241)
SummaryResult(start, end, total, batches) ==
    <<"Updated summary report data for date range ", start, " to ", end,
      ". Processed ", total, " total records in ", batches, " batches">>

\* process_batch has returned, and the rows of the batch stay in batch_data
BatchReturnKeeps ==
    /\ job = "process_summary_report"
    /\ pc = "done"
    /\ total_records' = total_records + Len(batch_data)
    /\ IF closed[Len(closed)].final
       THEN /\ pc' = "finished"
            /\ UNCHANGED <<batch_number, batch_start_date>>
       ELSE /\ pc' = "fetch"
            /\ batch_number' = batch_number + 1
            /\ batch_start_date' = current_date
    /\ UNCHANGED <<otherVars, job, warehouseVars, batch_data, staged, num_rows, err, runs,
                   tablePre, prev, start_date, end_date, current_date, all_data, windows,
                   closed, last_response>>

\* process_batch has returned len(batch_df) (lines 228-234; 238-239 after
\* the loop, where nothing is reset)
BatchReturn ==
    /\ job = "process_summary_report"
    /\ pc = "done"
    /\ total_records' = total_records + Len(batch_data)
    /\ IF closed[Len(closed)].final
       THEN /\ pc' = "finished"
            /\ result' = SummaryResult(start_date, end_date, total_records', batch_number)
            /\ UNCHANGED <<batch_data, batch_number, batch_start_date>>
       ELSE /\ pc' = "fetch"
            /\ batch_data' = <<>>
            /\ batch_number' = batch_number + 1
            /\ batch_start_date' = current_date
            /\ result' = result
    /\ UNCHANGED <<uploadVars, parseVars, raceVars, env, page, all_items, requests,
                   responses, job, warehouseVars, staged, num_rows, err, runs, tablePre,
                   prev, start_date, end_date, current_date, all_data, windows, closed,
                   last_response>>

\* the loop is over (lines 236-244): rows still waiting are handed to
\* process_batch, then the result string is built
SummaryFinish ==
    /\ job = "process_summary_report"
    /\ pc = "fetch"
    /\ ~InRange(current_date, end_date)
    /\ IF batch_data # <<>>
       THEN /\ closed' = Append(closed,
                            [number |-> batch_number, first |-> batch_start_date,
                             last |-> current_date, rows |-> batch_data, final |-> TRUE])
            /\ pc' = "upload"
            /\ runs' = runs + 1
            /\ tablePre' = table
            /\ result' = result
       ELSE /\ pc' = "finished"
            /\ result' = SummaryResult(start_date, end_date, total_records, batch_number)
            /\ UNCHANGED <<closed, runs, tablePre>>
    /\ UNCHANGED <<uploadVars, parseVars, raceVars, env, page, all_items, requests,
                   responses, job, warehouseVars, batch_data, staged, num_rows, err, prev,
                   start_date, end_date, current_date, batch_start_date, batch_number,
                   total_records, all_data, windows, last_response>>

NextSummary ==
    \/ SummaryFetchDay
    \/ UploadToGcs
    \/ LoadTemp
    \/ EnsureTable
    \/ Merge
    \/ DropTemp
    \/ GetCount
    \/ BatchReturn
    \/ SummaryFinish

SpecSummary == InitSummary /\ [][NextSummary]_vars

\* the day loops of both jobs
InitDayLoops == InitCsv \/ InitSummary
NextDayLoops == NextCsv \/ NextSummary
SpecDayLoops == InitDayLoops /\ [][NextDayLoops]_vars

---------------------------------------------------------------------------
(* Properties of the day loops *)

\* the day loop has run to its end
LoopExited ==
    \/ job = "clockify_to_bigquery" /\ pc # "fetch"
    \/ job = "process_summary_report" /\ pc = "finished"

\* C9: window partitioning.  The windows requested so far are, in order,
\* the one-day windows [start_date + i - 1, start_date + i): ascending,
\* contiguous, not overlapping, inside [start_date, end_date); when the loop
\* has run to its end they cover [start_date, end_date) exactly, and an
\* empty range requests no window.
C9_WindowPartition ==
    /\ \A i \in 1..Len(windows) :
          windows[i] = <<start_date + (i - 1), start_date + i>>
    /\ Len(windows) <= end_date - start_date
    /\ LoopExited => Len(windows) = end_date - start_date
    /\ start_date = end_date => windows = <<>>

\* C9 witness: a day loop has run to its end over a range of several days,
\* its last window ending at end_date
C9_Witness ==
    /\ LoopExited
    /\ Len(windows) >= 2
    /\ windows[Len(windows)][2] = end_date

BatchSpan == BATCH_SIZE_WEEKS * DAYS_PER_WEEK

\* C10: batch boundary rule.  The batches closed so far cover consecutive
\* windows from start_date on; each spans at most BATCH_SIZE_WEEKS weeks and
\* was closed when its span reached BATCH_SIZE_WEEKS weeks or the range was
\* exhausted; only the last one may span less.  At the head of the loop
\* the open batch starts where the last closed one ended and has reached
\* neither boundary.
C10_BatchBoundary ==
    job = "process_summary_report" =>
        /\ \A i \in 1..Len(closed) :
              LET c == closed[i]
              IN  /\ c.first = (IF i = 1 THEN start_date ELSE closed[i - 1].last)
                  /\ c.first < c.last
                  /\ c.last - c.first <= BatchSpan
                  /\ (c.last - c.first = BatchSpan \/ c.last = end_date)
                  /\ (i < Len(closed) => c.last - c.first = BatchSpan)
        /\ pc = "fetch" =>
              /\ batch_start_date =
                    (IF closed = <<>> THEN start_date ELSE closed[Len(closed)].last)
              /\ current_date - batch_start_date < BatchSpan
              /\ (current_date < end_date \/ current_date = batch_start_date)

\* C10 witness: a run closed two batches of full span and a shorter last one
C10_Witness ==
    /\ job = "process_summary_report"
    /\ pc = "finished"
    /\ Len(closed) = 3
    /\ closed[1].last - closed[1].first = BatchSpan
    /\ closed[2].last - closed[2].first = BatchSpan
    /\ closed[3].last - closed[3].first < BatchSpan
    /\ closed[3].last = end_date

---------------------------------------------------------------------------
(* utils.py: upload_to_gcs, the retry loop around the upload               *)

\* An exception message, str(e), is a sequence of characters, so that the
\* test `'SSL' in error_msg` is a search for a substring.
MsgSslEof      == <<"S", "S", "L", ":", " ", "E", "O", "F">>
MsgConnReset ==
    <<"C", "o", "n", "n", "e", "c", "t", "i", "o", "n", " ", "r", "e", "s",
      "e", "t">>
MsgConnAborted ==
    <<"(", "'", "C", "o", "n", "n", "e", "c", "t", "i", "o", "n", " ", "a",
      "b", "o", "r", "t", "e", "d", ".", "'", ")">>
MsgLowerCase ==
    <<"c", "o", "n", "n", "e", "c", "t", "i", "o", "n", " ", "r", "e", "f",
      "u", "s", "e", "d">>
MsgForbidden ==
    <<"4", "0", "3", " ", "F", "o", "r", "b", "i", "d", "d", "e", "n">>
MsgTimeout     == <<"T", "i", "m", "e", "o", "u", "t">>

\* the messages an upload attempt may fail with
ErrorMessages == {MsgSslEof, MsgConnReset, MsgConnAborted, MsgLowerCase,
                  MsgForbidden, MsgTimeout}

\* Python `sub in msg` for strings
Contains(msg, sub) ==
    \E i \in 0..(Len(msg) - Len(sub)) : SubSeq(msg, i + 1, i + Len(sub)) = sub

\* every error is taken for a transient one
TransientAlways(error_msg) == TRUE

\* 'SSL' in error_msg or 'Connection' in error_msg (line 70)
Transient(error_msg) ==
    \/ Contains(error_msg, <<"S", "S", "L">>)
    \/ Contains(error_msg, <<"C", "o", "n", "n", "e", "c", "t", "i", "o", "n">>)

max_retries == 3
retry_delay == 2

\* wait_time = retry_delay * (2 ** attempt) (line 71)
WaitTime(n) == retry_delay * (2 ^ n)

\* blob_name = f'{folder}/{today}/{filename}' (line 55) and
\* gcs_uri = f"gs://{bucket_name}/{blob_name}" (line 65)
BlobName(folder, today, filename) == <<folder, "/", today, "/", filename>>
GcsUri(bucket_name, blob_name) == <<"gs://", bucket_name, "/">> \o blob_name

\* the DataFrames upload_to_gcs is called with
UploadFrames == {parse_summary_json(PayloadOne, 1),
                 parse_summary_json(PayloadTwoLeaves, 1),
                 parse_summary_json(PayloadSparse, 2)}

InitUpload ==
    /\ job = "upload_to_gcs"
    /\ pc = "try"
    /\ InitWarehouse
    /\ batch_data \in UploadFrames
    /\ staged = <<>>
    /\ num_rows = 0
    /\ err = "none"
    /\ runs = 1
    /\ tablePre = EmptyBag
    /\ prev = NoCall
    /\ NoLoop
    /\ NoUpload
    /\ NoParse
    /\ NoList
    /\ NoRace

\* an iteration that also retries after the last attempt of the range
UploadAttemptSleepsLast ==
    /\ job = "upload_to_gcs"
    /\ pc = "try"
    /\ IF attempt < max_retries
       THEN /\ uploads' = uploads + 1
            /\ \/ \* blob.upload_from_filename succeeds
                  /\ staged' = batch_data
                  /\ gcs_uri' = GcsUri("bucket", BlobName("clockify_data", "today",
                                                          "file.parquet"))
                  /\ pc' = "returned"
                  /\ UNCHANGED <<attempt, sleeps, errors, raised, err>>
               \/ \* it raises e
                  \E error_msg \in ErrorMessages :
                     /\ errors' = Append(errors, error_msg)
                     /\ IF Transient(error_msg)
                        THEN /\ sleeps' = Append(sleeps, WaitTime(attempt))
                             /\ attempt' = attempt + 1
                             /\ UNCHANGED <<pc, raised, err>>
                        ELSE /\ raised' = error_msg
                             /\ Raise("upload")
                             /\ UNCHANGED <<attempt, sleeps>>
                     /\ UNCHANGED <<staged, gcs_uri>>
       ELSE /\ pc' = "returned"
            /\ UNCHANGED <<uploadVars, staged, err>>
    /\ UNCHANGED <<parseVars, listVars, raceVars, job, warehouseVars, batch_data, num_rows, runs, tablePre,
                   prev, loopVars>>

\* one iteration of `for attempt in range(max_retries)` (lines 62-76); when
\* the range is used up the function ends without a return statement
UploadAttempt ==
    /\ job = "upload_to_gcs"
    /\ pc = "try"
    /\ IF attempt < max_retries
       THEN /\ uploads' = uploads + 1
            /\ \/ \* blob.upload_from_filename succeeds
                  /\ staged' = batch_data
                  /\ gcs_uri' = GcsUri("bucket", BlobName("clockify_data", "today",
                                                          "file.parquet"))
                  /\ pc' = "returned"
                  /\ UNCHANGED <<attempt, sleeps, errors, raised, err>>
               \/ \* it raises e
                  \E error_msg \in ErrorMessages :
                     /\ errors' = Append(errors, error_msg)
                     /\ IF attempt < max_retries - 1 /\ Transient(error_msg)
                        THEN /\ sleeps' = Append(sleeps, WaitTime(attempt))
                             /\ attempt' = attempt + 1
                             /\ UNCHANGED <<pc, raised, err>>
                        ELSE /\ raised' = error_msg
                             /\ Raise("upload")
                             /\ UNCHANGED <<attempt, sleeps>>
                     /\ UNCHANGED <<staged, gcs_uri>>
       ELSE /\ pc' = "returned"
            /\ UNCHANGED <<uploadVars, staged, err>>
    /\ UNCHANGED <<parseVars, listVars, raceVars, job, warehouseVars, batch_data, num_rows, runs, tablePre,
                   prev, loopVars>>

NextUpload == UploadAttempt

SpecUpload == InitUpload /\ [][NextUpload]_vars

---------------------------------------------------------------------------
(* Properties of upload_to_gcs (SpecUpload) *)

\* a message that contains neither 'SSL' nor 'Connection'
NonTransientMessage(msg) ==
    /\ ~Contains(msg, <<"S", "S", "L">>)
    /\ ~Contains(msg, <<"C", "o", "n", "n", "e", "c", "t", "i", "o", "n">>)

\* C11: staging retry/backoff.  When upload_to_gcs has raised after its
\* first three upload attempts failed with transient errors, it has made
\* exactly 3 retries after the first attempt, having slept 2s, 4s and 8s
\* before them in that order.
C11_ThreeRetries ==
    (job = "upload_to_gcs" /\ pc = "raised" /\ Len(errors) >= 3
        /\ \A i \in 1..3 : ~NonTransientMessage(errors[i]))
        => (sleeps = <<2, 4, 8>> /\ uploads = 4)

\* C12: a non-transient upload error is never retried.  A failed attempt
\* whose message contains neither 'SSL' nor 'Connection' is the last attempt:
\* upload_to_gcs has raised that error, and has neither slept nor uploaded
\* again after it.
C12_NonTransientNotRetried ==
    job = "upload_to_gcs" =>
        \A i \in 1..Len(errors) :
            NonTransientMessage(errors[i]) =>
                /\ i = Len(errors)
                /\ pc = "raised"
                /\ raised = errors[i]
                /\ uploads = i
                /\ Len(sleeps) = i - 1

\* C12 witness: the second attempt, made after a transient failure and a
\* sleep of 2s, failed with a non-transient error and upload_to_gcs raised
C12_Witness ==
    /\ job = "upload_to_gcs"
    /\ pc = "raised"
    /\ Len(errors) = 2
    /\ ~NonTransientMessage(errors[1])
    /\ NonTransientMessage(errors[2])
    /\ raised = errors[2]
    /\ sleeps = <<2>>
    /\ uploads = 2

---------------------------------------------------------------------------
(* summary/main.py: parse_summary_json applied to generated reports        *)

MaxChildren == 2      \* children of a group node, and user groups of a report

\* the sequences over S of length 0..n
SeqsUpTo(S, n) == UNION {[1..k -> S] : k \in 0..n}

\* project groups: without tag children, and with two of them
GenProjectGroups ==
    {ProjectGroup("p1", "Site", "c1", "Acme", HOUR, 100, <<>>),
     ProjectGroup("p2", "Shop", "c1", "Acme", 3 * HOUR, 300,
                  <<TagGroup("t1", "dev", HOUR, 100), TagGroup("t2", "ops", 2 * HOUR, 200)>>)}

GenUserGroups ==
    {UserGroup("u1", "Ann", children) : children \in SeqsUpTo(GenProjectGroups, MaxChildren)}

GenPayloads == {Report(group_one) : group_one \in SeqsUpTo(GenUserGroups, MaxChildren)}

\* tag groups and tagless project groups whose duration is a number that is
\* not a whole hour, zero, JSON null, or missing
PayloadDurations ==
    Report(<<UserGroup("u1", "Ann", <<
        ProjectGroup("p1", "Site", "c1", "Acme", (5 * HOUR) \div 2, 250, <<
            TagGroup("t1", "dev", HOUR \div 2, 50),
            TagGroup("t2", "ops", 0, 0),
            TagGroup("t3", "qa", NullNum, 0),
            TagGroup("t4", "doc", AbsentNum, 0)>>),
        ProjectGroup("p2", "Shop", "c1", "Acme", HOUR \div 4, 25, <<>>),
        ProjectGroup("p3", "Blog", "c1", "Acme", 0, 0, <<>>),
        ProjectGroup("p4", "Wiki", "c1", "Acme", NullNum, 0, <<>>),
        ProjectGroup("p5", "Docs", "c1", "Acme", AbsentNum, 0, <<>>)>>)>>)

InitParse ==
    /\ job = "parse_summary_json"
    /\ pc = "call"
    /\ report \in Payloads \cup GenPayloads \cup {PayloadDurations}
    /\ InitWarehouse
    /\ InitCall
    /\ start_date = 0
    /\ end_date = 0
    /\ current_date \in BatchDates
    /\ batch_start_date = 0
    /\ batch_number = 1
    /\ total_records = 0
    /\ all_data = <<>>
    /\ windows = <<>>
    /\ closed = <<>>
    /\ last_response = NoResponse
    /\ NoUpload
    /\ NoList
    /\ NoRace

\* records = parse_summary_json(data, current_date.date()) (line 217)
Parse ==
    /\ job = "parse_summary_json"
    /\ pc = "call"
    /\ batch_data' = parse_summary_json(report, current_date)
    /\ pc' = "returned"
    /\ UNCHANGED <<otherVars, job, warehouseVars, staged, num_rows, err, runs, tablePre,
                   prev, loopVars>>

NextParse == Parse

SpecParse == InitParse /\ [][NextParse]_vars

---------------------------------------------------------------------------
(* Properties of parse_summary_json (SpecParse) *)

\* the leaf nodes of a report plus one for every childless branch
RECURSIVE LeavesOfProjects(_)
LeavesOfProjects(project_groups) ==
    IF project_groups = <<>> THEN 0
    ELSE (IF Head(project_groups).children = <<>> THEN 1
          ELSE Len(Head(project_groups).children))
         + LeavesOfProjects(Tail(project_groups))

RECURSIVE LeavesOfUsers(_)
LeavesOfUsers(group_one) ==
    IF group_one = <<>> THEN 0
    ELSE (IF Head(group_one).children = <<>> THEN 1
          ELSE LeavesOfProjects(Head(group_one).children))
         + LeavesOfUsers(Tail(group_one))

\* C13: flattening fan-out.  parse_summary_json emits as many rows as the
\* report has leaf nodes, plus one row for every childless branch: a project
\* group without tag children and a user group without project children each
\* yield exactly one row.
C13_RowPerLeaf ==
    (job = "parse_summary_json" /\ pc = "returned")
        => Len(batch_data) = LeavesOfUsers(report.groupOne)

---------------------------------------------------------------------------
(* The list jobs (users/main.py, projects/main.py, main_clients.py):       *)
(* JSON records and their flattening into the rows of a DataFrame          *)

\* the assignments target[f"{prefix}{key}_{subkey}"] = subvalue for the items
\* of the dict found under key, as <<column, value>> pairs
SubItems(prefix, key, dict) ==
    {<<prefix \o key \o "_" \o subkey, dict[subkey]>> : subkey \in DOMAIN dict}

\* the columns a set of assignments sets
Assign(pairs) ==
    [col \in {p[1] : p \in pairs} |-> (CHOOSE p \in pairs : p[1] = col)[2]]

\* pd.DataFrame(records) / pd.concat(frames): the columns are the union of
\* the records' keys, a key a record lacks is NaN in its row; then
\* df['import_timestamp'] = datetime.now()
ListFrame(records) ==
    LET columns == UNION {DOMAIN records[i] : i \in 1..Len(records)}
                       \cup {"import_timestamp"}
    IN  [i \in 1..Len(records) |->
            [col \in columns |->
                IF col = "import_timestamp" THEN Scalar("now")
                ELSE IF col \in DOMAIN records[i] THEN records[i][col]
                ELSE NaN]]

\* the row of one user, with the fields of its last membership
FlattenUserLast(user) ==
    LET memberships == IF "memberships" \in DOMAIN user
                       THEN Content(user["memberships"]) ELSE <<>>
        base        == [key \in DOMAIN user \ {"memberships"} |-> user[key]]
        membership  == memberships[Len(memberships)]
        items       == UNION {IF IsDict(membership[key])
                              THEN SubItems("membership_", key, Content(membership[key]))
                              ELSE {<<"membership_" \o key, membership[key]>>}
                              : key \in DOMAIN membership}
    IN  IF memberships # <<>> THEN Assign(items) @@ base ELSE base

\* users/main.py lines 55-75: the row of one user
FlattenUser(user) ==
    LET memberships == IF "memberships" \in DOMAIN user
                       THEN Content(user["memberships"]) ELSE <<>>
        base        == [key \in DOMAIN user \ {"memberships"} |-> user[key]]
        membership  == memberships[1]
        items       == UNION {IF IsDict(membership[key])
                              THEN SubItems("membership_", key, Content(membership[key]))
                              ELSE {<<"membership_" \o key, membership[key]>>}
                              : key \in DOMAIN membership}
    IN  IF memberships # <<>> THEN Assign(items) @@ base ELSE base

\* users/main.py lines 52-84
FlattenUsers(all_users) ==
    IF all_users # <<>>
    THEN ListFrame([i \in 1..Len(all_users) |-> FlattenUser(all_users[i])])
    ELSE <<>>

\* projects/main.py lines 60-62 (64-67, 69-72): the fields of a nested
\* object are added under the object's name as a prefix
ExtractNested(processed_project, field) ==
    IF field \in DOMAIN processed_project /\ IsDict(processed_project[field])
    THEN Assign(SubItems("", field, Content(processed_project[field])))
             @@ processed_project
    ELSE processed_project

\* projects/main.py lines 55-89: the row of one project
FlattenProject(project) ==
    LET extracted   == ExtractNested(ExtractNested(ExtractNested(
                           project, "hourlyRate"), "estimate"), "timeEstimate")
        memberships == Content(extracted["memberships"])
        base        == [key \in DOMAIN extracted \ {"memberships"} |-> extracted[key]]
        membership  == memberships[1]
        items       == UNION {IF IsDict(membership[key])
                              THEN SubItems("", key, Content(membership[key]))
                              ELSE IF IsList(membership[key]) THEN {}
                              ELSE {<<key, membership[key]>>}
                              : key \in DOMAIN membership}
    IN  IF "memberships" \in DOMAIN extracted
        THEN (IF memberships # <<>> THEN Assign(items) @@ base ELSE base)
        ELSE extracted

\* projects/main.py lines 51-99
FlattenProjects(all_projects) ==
    IF all_projects # <<>>
    THEN ListFrame([i \in 1..Len(all_projects) |-> FlattenProject(all_projects[i])])
    ELSE <<>>

\* main_clients.py lines 49-55
FlattenClients(all_clients) ==
    IF all_clients # <<>> THEN ListFrame(all_clients) ELSE <<>>

\* the schemas handed to load_to_bigquery, as the sets of their column names
UsersSchema ==
    {"id", "email", "name", "status", "profilePicture", "activeWorkspace",
     "defaultWorkspace", "settings_weekStart", "settings_timeZone",
     "settings_dateFormat", "settings_timeFormat", "settings_sendNewsletter",
     "settings_weeklyUpdates", "settings_longRunning", "settings_scheduledReports",
     "settings_approval", "settings_pto", "settings_alerts", "settings_onboarding",
     "settings_projectPickerSpecialFilter", "membership_hourlyRate_amount",
     "membership_hourlyRate_currency", "membership_membershipStatus",
     "membership_membershipType", "membership_targetId", "import_timestamp"}

ProjectsSchema ==
    {"id", "name", "clientId", "workspaceId", "billable", "costRate", "hourlyRate",
     "membershipStatus", "membershipType", "targetId", "userId", "color", "archived",
     "duration", "clientName", "note", "budgetEstimate", "estimateReset", "template",
     "public", "hourlyRate_amount", "hourlyRate_currency", "estimate_estimate",
     "estimate_type", "timeEstimate_estimate", "timeEstimate_type",
     "timeEstimate_resetOption", "timeEstimate_active",
     "timeEstimate_includeNonBillable", "import_timestamp"}

ClientsSchema ==
    {"id", "name", "workspaceId", "archived", "address", "note", "import_timestamp"}

FetchJobs == {"fetch_clockify_users", "fetch_clockify_projects", "fetch_clockify_clients"}

\* the entity a job handles
Entity(j) ==
    CASE j \in {"fetch_clockify_users", "process_users"}       -> "users"
      [] j \in {"fetch_clockify_projects", "process_projects"} -> "projects"
      [] j \in {"fetch_clockify_clients", "process_clients"}   -> "clients"

Flatten(entity, all) ==
    CASE entity = "users"    -> FlattenUsers(all)
      [] entity = "projects" -> FlattenProjects(all)
      [] entity = "clients"  -> FlattenClients(all)

Schema(entity) ==
    CASE entity = "users"    -> UsersSchema
      [] entity = "projects" -> ProjectsSchema
      [] entity = "clients"  -> ClientsSchema

---------------------------------------------------------------------------
(* Upstream records of the list endpoints *)

Settings ==
    Dict([weekStart |-> Scalar("MONDAY"), timeZone |-> Scalar("Europe/Berlin"),
          dateFormat |-> Scalar("DD.MM.YYYY"), timeFormat |-> Scalar("HOUR24"),
          sendNewsletter |-> Scalar("false"), weeklyUpdates |-> Scalar("false"),
          longRunning |-> Scalar("false"), scheduledReports |-> Scalar("true"),
          approval |-> Scalar("true"), pto |-> Scalar("true"),
          alerts |-> Scalar("true"), onboarding |-> Scalar("true"),
          projectPickerSpecialFilter |-> Scalar("false")])

Rate(amount) == Dict([amount |-> Scalar(amount), currency |-> Scalar("EUR")])

Membership(userId, targetId, hourlyRate) ==
    [userId |-> Scalar(userId), hourlyRate |-> hourlyRate, costRate |-> None,
     targetId |-> Scalar(targetId), membershipType |-> Scalar("WORKSPACE"),
     membershipStatus |-> Scalar("ACTIVE")]

User(id, name, memberships) ==
    [id |-> Scalar(id), email |-> Scalar(name \o "@example.com"), name |-> Scalar(name),
     status |-> Scalar("ACTIVE"), profilePicture |-> None,
     activeWorkspace |-> Scalar("w1"), defaultWorkspace |-> Scalar("w1"),
     settings |-> Settings, memberships |-> List(memberships)]

\* a user record that has no memberships key
UserWithoutMemberships(id, name) ==
    [key \in DOMAIN User(id, name, <<>>) \ {"memberships"} |-> User(id, name, <<>>)[key]]

UserRecordsRaw ==
    {User("u1", "ann", <<>>),
     UserWithoutMemberships("u4", "dan"),
     User("u2", "bob", <<Membership("u2", "w1", Rate("5000"))>>),
     User("u3", "cyd", <<Membership("u3", "w1", None),
                         Membership("u3", "w2", Rate("7000"))>>)}

Project(id, hourlyRate, memberships) ==
    [id |-> Scalar(id), name |-> Scalar("Site"), clientId |-> Scalar("c1"),
     workspaceId |-> Scalar("w1"), billable |-> Scalar("true"), costRate |-> None,
     hourlyRate |-> hourlyRate, color |-> Scalar("#000000"),
     archived |-> Scalar("false"), duration |-> Scalar("PT1H"),
     clientName |-> Scalar("Acme"), note |-> Scalar(""),
     budgetEstimate |-> None, estimateReset |-> None,
     template |-> Scalar("false"), public |-> Scalar("true"),
     estimate |-> Dict([estimate |-> Scalar("PT0S"), type |-> Scalar("AUTO")]),
     timeEstimate |-> Dict([estimate |-> Scalar("PT0S"), type |-> Scalar("AUTO"),
                            resetOption |-> None, active |-> Scalar("false"),
                            includeNonBillable |-> Scalar("true")]),
     memberships |-> List(memberships)]

ProjectRecordsRaw ==
    {Project("p1", Rate("10000"), <<>>),
     Project("p4", None, <<Membership("u2", "p4", Rate("5000"))>>),
     Project("p2", Rate("10000"), <<Membership("u2", "p2", None)>>),
     Project("p3", Rate("10000"), <<Membership("u2", "p3", Rate("5000")),
                                    Membership("u3", "p3", None)>>)}

Client(id, name) ==
    [id |-> Scalar(id), name |-> Scalar(name), workspaceId |-> Scalar("w1"),
     archived |-> Scalar("false"), address |-> None, note |-> None]

\* a client as the API returns it today, with fields the schema does not name
ClientWithEmail(id, name) ==
    [col \in {"email", "currencyId"} |-> None] @@ Client(id, name)

\* a client record without the optional fields
ClientBare(id, name) ==
    [id |-> Scalar(id), name |-> Scalar(name), workspaceId |-> Scalar("w1"),
     archived |-> Scalar("false")]

ClientRecordsRaw ==
    {Client("c1", "Acme"), Client("c4", "Omni"), ClientWithEmail("c2", "Zeta"),
     ClientBare("c3", "Bare")}

RawRecords(entity) ==
    CASE entity = "users"    -> UserRecordsRaw
      [] entity = "projects" -> ProjectRecordsRaw
      [] entity = "clients"  -> ClientRecordsRaw

---------------------------------------------------------------------------
(* The flattening part of fetch_clockify_users / _projects / _clients,     *)
(* applied to lists of raw records                                         *)

MaxRecords == 2       \* raw records in the list that is flattened

InitFlatten ==
    /\ job \in FetchJobs
    /\ pc = "flatten"
    /\ InitWarehouse
    /\ InitCall
    /\ NoLoop
    /\ NoUpload
    /\ NoParse
    /\ NoRace
    /\ env = EnvNames
    /\ page = 1
    /\ all_items \in SeqsUpTo(RawRecords(Entity(job)), MaxRecords)
    /\ requests = <<>>
    /\ responses = <<>>
    /\ result = <<>>

\* `if all_users: ... return df  else: return pd.DataFrame()`
FlattenRecords ==
    /\ job \in FetchJobs
    /\ pc = "flatten"
    /\ batch_data' = Flatten(Entity(job), all_items)
    /\ pc' = "returned"
    /\ UNCHANGED <<otherVars, job, warehouseVars, staged, num_rows, err, runs, tablePre,
                   prev, loopVars>>

NextFlatten == FlattenRecords

SpecFlatten == InitFlatten /\ [][NextFlatten]_vars

---------------------------------------------------------------------------
(* Properties of the flatteners (SpecFlatten) *)

\* C14: schema conformance.  Every row of the DataFrame a list job builds
\* from the raw records, which is the file it stages, has exactly the
\* columns of the entity's schema: no column the schema does not declare,
\* and every declared column present.
C14_SchemaConformance ==
    (job \in FetchJobs /\ pc = "returned")
        => \A i \in 1..Len(batch_data) :
              DOMAIN batch_data[i] = Schema(Entity(job))

---------------------------------------------------------------------------
(* Failed day fetches in the day loops (SpecDayLoops) *)

\* the rows fetched so far, in the order of their windows
Collected ==
    IF job = "clockify_to_bigquery" THEN Concat(all_data)
    ELSE ClosedRows(closed) \o (IF pc = "fetch" THEN batch_data ELSE <<>>)

\* the rows the last response carries for the window starting at date
RowsOf(response, date) ==
    IF job = "clockify_to_bigquery" THEN DataFrame(response.content, date)
    ELSE parse_summary_json(response.data, date)

\* the key columns of the job's MERGE
MergeKeysOf(j) == IF j = "clockify_to_bigquery" THEN CsvMergeKeys ELSE SummaryMergeKeys

\* the rows fetched for the batches whose MERGE has completed
MergedRows ==
    CASE job = "clockify_to_bigquery" ->
            IF pc \in {"drop", "count", "done"} THEN Concat(all_data) ELSE <<>>
      [] job = "process_summary_report" ->
            IF pc \in {"fetch", "finished", "drop", "count", "done"}
            THEN ClosedRows(closed)
            ELSE ClosedRows(SubSeq(closed, 1, Len(closed) - 1))

\* C15: partial-failure tolerance of the day-windowed fetches.  A day
\* request never ends the job: its window is recorded and the loop goes on
\* with the next day.  A non-200 answer adds no row, a 200 answer adds the
\* rows of its window.  When the loop has ended all windows of the range
\* were requested; the staged file holds the fetched rows, and after a
\* completed MERGE every fetched row's key is in the permanent table.
C15_PartialFailureTolerated ==
    /\ [][current_date' # current_date =>
            /\ pc' # "raised"
            /\ current_date' = current_date + 1
            /\ windows' = Append(windows, <<current_date, current_date + 1>>)
            /\ last_response'.status_code # 200 => Collected' = Collected
            /\ last_response'.status_code = 200 =>
                  Collected' = Collected \o RowsOf(last_response', current_date)]_vars
    /\ [](LoopExited => Len(windows) = end_date - start_date)
    /\ []((job = "clockify_to_bigquery" /\ pc \in {"load", "ensure", "merge", "drop"})
             => staged = Concat(all_data))
    /\ [](\A i \in 1..Len(MergedRows) :
             KeyOf(MergedRows[i], MergeKeysOf(job)) \in KeysIn(table, MergeKeysOf(job)))

\* C15 witness: of the two windows of a range the first was answered
\* non-200 and the second with rows; the job went on to stage and merge the
\* rows of the second window
C15_Witness ==
    /\ job = "clockify_to_bigquery"
    /\ pc = "drop"
    /\ Len(windows) = 2
    /\ Len(all_data) = 1
    /\ last_response.status_code = 200
    /\ last_response.content # <<>>
    /\ staged = DataFrame(last_response.content, windows[2][1])
    /\ \A i \in 1..Len(staged) : KeyOf(staged[i], CsvMergeKeys) \in KeysIn(table, CsvMergeKeys)

---------------------------------------------------------------------------
(* The no-data condition of clockify_to_bigquery (SpecCsv) *)

\* C16: the no-data condition is a success.  When the day loop has ended
\* without a single fetched row (an empty range, or only failed or empty
\* windows), the job has returned without raising and without going on to
\* the staging upload and the MERGE.
C16_NoDataIsSuccess ==
    (job = "clockify_to_bigquery" /\ pc # "fetch" /\ Concat(all_data) = <<>>)
        => (pc = "returned" /\ err = "none")

---------------------------------------------------------------------------
(* users/main.py, projects/main.py, main_clients.py: the list jobs         *)
(* process_users, process_projects, process_clients                        *)

MaxPages == 2         \* pages the upstream list holds at most

page_size == 50

ListMergeKeys == {"id"}

\* the pages the upstream answers with: none, one or two records
ListPages(entity) ==
    CASE entity = "users" ->
            {<<>>, <<User("u1", "ann", <<>>)>>,
             <<User("u1", "ann", <<>>),
               User("u2", "bob", <<Membership("u2", "w1", Rate("5000"))>>)>>}
      [] entity = "projects" ->
            {<<>>, <<Project("p1", Rate("10000"), <<>>)>>,
             <<Project("p1", Rate("10000"), <<>>),
               Project("p2", Rate("10000"), <<Membership("u2", "p2", None)>>)>>}
      [] entity = "clients" ->
            {<<>>, <<Client("c1", "Acme")>>,
             <<Client("c1", "Acme"), Client("c4", "Omni")>>}

\* The answers to the request of page p.  Without an API key or a workspace
\* id the upstream rejects the request; beyond its last page the list is
\* empty.
ListResponses(entity, environment, p) ==
    {[status_code |-> 502, content |-> <<>>]}
        \cup {[status_code |-> 200, content |-> c] :
                 c \in IF {"CLOCKIFY_API_KEY", "CLOCKIFY_WORKSPACE_ID"} \subseteq environment
                       THEN (IF p <= MaxPages THEN ListPages(entity) ELSE {<<>>})
                       ELSE {}}

\* page stays what it is
NextPageSame(p) == p

\* page += 1
NextPage(p) == p + 1

\* the strings the list jobs return
NoDataResult(entity) == <<"No ", entity, " data to process">>
UpdatedResult(entity, n) ==
    <<"Updated ", entity, " data. Table now has ", n, " total rows">>

InitList ==
    /\ job \in ListJobs
    /\ pc = "start"
    /\ InitWarehouse
    /\ InitCall
    /\ NoLoop
    /\ NoUpload
    /\ NoParse
    /\ NoRace
    /\ env \in SUBSET EnvNames
    /\ page = 1
    /\ all_items = <<>>
    /\ requests = <<>>
    /\ responses = <<>>
    /\ result = <<>>

\* `if not all([project_id, bucket_name]): raise Exception(...)`
ListConfig ==
    /\ job \in ListJobs
    /\ pc = "start"
    /\ IF {"GCP_PROJECT_ID", "GCS_BUCKET_NAME"} \subseteq env
       THEN /\ pc' = "page"
            /\ err' = err
       ELSE Raise("config")
    /\ UNCHANGED <<otherVars, job, warehouseVars, batch_data, staged, num_rows, runs,
                   tablePre, prev, loopVars>>

\* `if response.status_code != 200: ... break` only: an empty page goes on
LastPageOnError(response) == response.status_code # 200

\* `if response.status_code != 200: ... break` and `if not users: break`
LastPage(response) ==
    response.status_code # 200 \/ response.content = <<>>

\* one iteration of `while True` in fetch_clockify_users / _projects /
\* _clients (users/main.py lines 33-49), answered by one of answers
FetchPage(answers) ==
    /\ requests' = Append(requests, [page |-> page, page_size |-> page_size])
    /\ \E response \in answers :
          /\ responses' = Append(responses, response)
          /\ IF LastPage(response)
             THEN /\ pc' = "flatten"
                  /\ UNCHANGED <<all_items, page>>
             ELSE /\ all_items' = all_items \o response.content
                  /\ page' = NextPage(page)
                  /\ pc' = pc
    /\ UNCHANGED <<uploadVars, parseVars, raceVars, env, result, job, warehouseVars, callVars,
                   loopVars>>

\* the page loop against an upstream list of at most MaxPages pages
ListFetchPage ==
    /\ job \in ListJobs
    /\ pc = "page"
    /\ FetchPage(ListResponses(Entity(job), env, page))

\* the DataFrame is built and handed back to process_users, which returns
\* at once when it is empty (users/main.py lines 52-84 and 99-103)
ListFlatten ==
    /\ job \in ListJobs
    /\ pc = "flatten"
    /\ batch_data' = Flatten(Entity(job), all_items)
    /\ IF batch_data' = <<>>
       THEN /\ result' = NoDataResult(Entity(job))
            /\ pc' = "returned"
            /\ UNCHANGED <<runs, tablePre>>
       ELSE /\ result' = result
            /\ pc' = "upload"
            /\ runs' = runs + 1
            /\ tablePre' = table
    /\ UNCHANGED <<uploadVars, parseVars, raceVars, env, page, all_items, requests, responses,
                   job, warehouseVars, staged, num_rows, err, prev, loopVars>>

\* the MERGE of load_to_bigquery with merge_keys = ['id']
ListMerge ==
    /\ job \in ListJobs
    /\ pc = "merge"
    /\ \/ /\ tempExists
          /\ ~MergeRejected(table, temp, ListMergeKeys)
          /\ table' = merge_query(table, temp, ListMergeKeys)
          /\ pc' = "drop"
          /\ err' = err
       \/ /\ Raise("merge")
          /\ table' = table
    /\ UNCHANGED <<otherVars, job, tableExists, temp, tempExists, batch_data, staged,
                   num_rows, runs, tablePre, prev, loopVars>>

\* result = f"Updated users data. Table now has {num_rows} total rows"
ListReturn ==
    /\ job \in ListJobs
    /\ pc = "done"
    /\ result' = UpdatedResult(Entity(job), num_rows)
    /\ pc' = "returned"
    /\ UNCHANGED <<uploadVars, parseVars, raceVars, env, page, all_items, requests, responses,
                   job, warehouseVars, callVars, loopVars>>

NextList ==
    \/ ListConfig
    \/ ListFetchPage
    \/ ListFlatten
    \/ UploadToGcs
    \/ LoadTemp
    \/ EnsureTable
    \/ ListMerge
    \/ DropTemp
    \/ GetCount
    \/ ListReturn

SpecList == InitList /\ [][NextList]_vars

---------------------------------------------------------------------------
(* fetch_clockify_users / _projects / _clients alone, against an upstream  *)
(* that may answer every page with records                                 *)

MaxRequests == 4      \* requests followed per call

\* The answers of an upstream whose list has no known last page: an error,
\* an empty page or a page of records, whatever the page number.
UpstreamAnswers(entity, environment) ==
    {[status_code |-> 502, content |-> <<>>]}
        \cup {[status_code |-> 200, content |-> c] :
                 c \in IF {"CLOCKIFY_API_KEY", "CLOCKIFY_WORKSPACE_ID"} \subseteq environment
                       THEN ListPages(entity)
                       ELSE {}}

\* `all_users = []`, `page = 1` (users/main.py lines 29-31)
InitPaging ==
    /\ job \in ListJobs
    /\ pc = "page"
    /\ InitWarehouse
    /\ InitCall
    /\ NoLoop
    /\ NoUpload
    /\ NoParse
    /\ NoRace
    /\ env = EnvNames
    /\ page = 1
    /\ all_items = <<>>
    /\ requests = <<>>
    /\ responses = <<>>
    /\ result = <<>>

\* the page loop, followed for MaxRequests requests
PagingFetch ==
    /\ job \in ListJobs
    /\ pc = "page"
    /\ Len(requests) < MaxRequests
    /\ FetchPage(UpstreamAnswers(Entity(job), env))

NextPaging == PagingFetch

\* the loop is one thread: each iteration that can be made is made
SpecPaging == InitPaging /\ [][NextPaging]_vars /\ WF_vars(PagingFetch)

---------------------------------------------------------------------------
(* Properties of the list jobs (SpecList) *)

\* C17: configuration fail-fast.  A job started with a required variable
\* missing (API key, workspace id, storage project id, bucket name) sends no
\* request and goes no further than raising a configuration error.
C17_ConfigFailFast ==
    (job \in ListJobs /\ env # EnvNames)
        => /\ requests = <<>>
           /\ pc \in {"start", "raised"}
           /\ pc = "raised" => err = "config"

\* the index of the first answer that is empty or non-200 (0: none so far)
FirstEnd ==
    LET ends == {i \in 1..Len(responses) :
                    responses[i].status_code # 200 \/ responses[i].content = <<>>}
    IN  IF ends = {} THEN 0 ELSE CHOOSE i \in ends : \A j \in ends : i <= j

\* the contents of the first n answers, concatenated in page order
RECURSIVE PagesUpTo(_)
PagesUpTo(n) == IF n = 0 THEN <<>> ELSE PagesUpTo(n - 1) \o responses[n].content

\* C18: paginated list fetch.  The pages are requested as 1, 2, 3, ... with
\* the fixed page size; the list collected is the concatenation, in page
\* order, of the pages before the first one that is empty or answered
\* non-200, and no page is requested after that one.  A non-200 answer is
\* not raised: the job goes on with the list as it is, and reports
\* 'no data' when it was page 1.
C18_PaginatedFetch ==
    job \in ListJobs =>
        /\ Len(requests) = Len(responses)
        /\ \A i \in 1..Len(requests) :
              requests[i] = [page |-> i, page_size |-> page_size]
        /\ IF FirstEnd = 0
           THEN /\ all_items = PagesUpTo(Len(responses))
                /\ pc \in {"start", "page", "raised"}
                /\ page = Len(requests) + 1
           ELSE /\ FirstEnd = Len(responses)
                /\ all_items = PagesUpTo(FirstEnd - 1)
                /\ pc # "page"
                /\ err # "none" => err \in {"upload", "load", "ensure", "merge",
                                            "drop", "count"}
                /\ (pc \notin {"flatten", "raised"}) =>
                      batch_data = Flatten(Entity(job), PagesUpTo(FirstEnd - 1))
                /\ (FirstEnd = 1 /\ pc # "flatten") =>
                      (pc = "returned" /\ result = NoDataResult(Entity(job)))

\* C18 witness: pages 1 and 2 held records and page 3 was answered non-200;
\* the job took the two pages for the whole list and completed its load
C18_Witness ==
    /\ job \in ListJobs
    /\ Len(responses) = 3
    /\ responses[3].status_code # 200
    /\ all_items = responses[1].content \o responses[2].content
    /\ Len(all_items) >= 3
    /\ pc = "returned"
    /\ result = UpdatedResult(Entity(job), Len(all_items))

---------------------------------------------------------------------------
(* Failure of a batch of process_summary_report (SpecSummary) *)

\* the permanent table after the merges of the first n closed batches, in
\* order, into the empty table
RECURSIVE MergedThrough(_)
MergedThrough(n) ==
    IF n = 0 THEN EmptyBag
    ELSE merge_query(MergedThrough(n - 1), SeqToBag(closed[n].rows), SummaryMergeKeys)

\* staging or merging the current batch raised
BatchFailed ==
    /\ job = "process_summary_report"
    /\ err \in {"upload", "load", "ensure", "merge"}

\* C19: per-batch durability without cross-batch atomicity.  When staging
\* or merging batch k raises, the job ends with that error: the permanent
\* table holds the merges of batches 1..k-1 and nothing of batch k or of a
\* later batch, the last window fetched is the one that closed batch k, and
\* nothing happens afterwards.
C19_PerBatchDurability ==
    /\ []((job = "process_summary_report" /\ err # "none") => pc = "raised")
    /\ [](BatchFailed =>
            LET k == Len(closed)
            IN  /\ k >= 1
                /\ closed[k].number = batch_number
                /\ closed[k].rows = batch_data
                /\ table = MergedThrough(k - 1)
                /\ table = tablePre
                /\ \A i \in 1..(k - 1) : \A j \in 1..Len(closed[i].rows) :
                      KeyOf(closed[i].rows[j], SummaryMergeKeys)
                          \in KeysIn(table, SummaryMergeKeys)
                /\ \A r \in BagToSet(table) : r.date < closed[k].first
                /\ Len(windows) = closed[k].last - start_date
                /\ current_date = closed[k].last)
    /\ [][~(job = "process_summary_report" /\ pc = "raised")]_vars

\* C19 witness: the first batch was merged, and the upload, load or MERGE of
\* the second batch raised before the range was exhausted
C19_Witness ==
    /\ BatchFailed
    /\ pc = "raised"
    /\ Len(closed) = 2
    /\ closed[1].rows # <<>>
    /\ batch_data # <<>>
    /\ table = SeqToBag(closed[1].rows)
    /\ current_date < end_date

---------------------------------------------------------------------------
(* Two invocations of process_users at once: both name the object          *)
(* clockify_users.parquet, the temporary table temp_users and the table    *)
(* users (users/main.py lines 105-155)                                     *)

Invocations == {1, 2}

\* the DataFrames the invocations have fetched
RaceFrames ==
    {FlattenUsers(<<User("u1", "ann", <<>>)>>),
     FlattenUsers(<<User("u1", "amy", <<>>), User("u2", "bob", <<>>)>>)}

NotStarted == [pc |-> "idle", df |-> <<>>, err |-> "none", read |-> "none",
               saw |-> EmptyBag, num_rows |-> 0]

\* the invocation is between its start and its return or raise
Active(i) == invocations[i].pc \notin {"idle", "done", "raised"}

InitRace ==
    /\ job = "process_users"
    /\ pc = "race"
    /\ InitWarehouse
    /\ InitCall
    /\ NoLoop
    /\ NoUpload
    /\ NoParse
    /\ NoList
    /\ invocations = [i \in Invocations |-> NotStarted]
    /\ temp_loader = 0
    /\ overlapped = FALSE

\* invocation i moves to position p, or raises at step
Goes(i, p) == invocations' = [invocations EXCEPT ![i].pc = p]
Raises(i, step) ==
    invocations' = [invocations EXCEPT ![i].pc = "raised", ![i].err = step]

\* an invocation is triggered; it has fetched its DataFrame and uploads it
\* (users/main.py lines 99-111)
RaceStart ==
    /\ job = "process_users"
    /\ pc = "race"
    /\ \E i \in Invocations, frame \in RaceFrames :
          /\ invocations[i].pc = "idle"
          /\ overlapped' = (overlapped \/ \E o \in Invocations \ {i} : Active(o))
          /\ \/ /\ staged' = frame
                /\ invocations' = [invocations EXCEPT ![i].pc = "load", ![i].df = frame]
             \/ /\ staged' = staged
                /\ invocations' = [invocations EXCEPT ![i].pc = "raised",
                                                      ![i].err = "upload",
                                                      ![i].df = frame]
    /\ UNCHANGED <<uploadVars, parseVars, listVars, temp_loader, job, pc, warehouseVars,
                   batch_data, num_rows, err, runs, tablePre, prev, loopVars>>

\* load_table_from_uri(gcs_uri, temp_table_id) (utils.py lines 83-95)
RaceLoad ==
    /\ job = "process_users"
    /\ pc = "race"
    /\ \E i \in Invocations :
          /\ invocations[i].pc = "load"
          /\ \/ /\ temp' = WriteTruncate(temp, SeqToBag(staged))
                /\ tempExists' = TRUE
                /\ temp_loader' = i
                /\ Goes(i, "ensure")
             \/ /\ Raises(i, "load")
                /\ UNCHANGED <<temp, tempExists, temp_loader>>
    /\ UNCHANGED <<uploadVars, parseVars, listVars, overlapped, job, pc, table,
                   tableExists, callVars, loopVars>>

\* get_table / create_table (utils.py lines 97-104)
RaceEnsure ==
    /\ job = "process_users"
    /\ pc = "race"
    /\ \E i \in Invocations :
          /\ invocations[i].pc = "ensure"
          /\ \/ /\ tableExists
                /\ Goes(i, "merge")
                /\ UNCHANGED <<table, tableExists>>
             \/ /\ ~tableExists
                /\ tableExists' = TRUE
                /\ table' = EmptyBag
                /\ Goes(i, "merge")
             \/ /\ Raises(i, "ensure")
                /\ UNCHANGED <<table, tableExists>>
    /\ UNCHANGED <<uploadVars, parseVars, listVars, temp_loader, overlapped, job, pc,
                   temp, tempExists, callVars, loopVars>>

\* what the temporary table is to invocation i when its MERGE reads it
ReadOf(i) ==
    IF ~tempExists THEN "missing"
    ELSE IF temp_loader = i THEN "own"
    ELSE "other"

\* the MERGE (utils.py lines 116-129); it raises when the temporary table
\* is not there
RaceMerge ==
    /\ job = "process_users"
    /\ pc = "race"
    /\ \E i \in Invocations :
          /\ invocations[i].pc = "merge"
          /\ \/ /\ tempExists
                /\ ~MergeRejected(table, temp, ListMergeKeys)
                /\ table' = merge_query(table, temp, ListMergeKeys)
                /\ invocations' = [invocations EXCEPT ![i].pc = "drop",
                                                      ![i].read = ReadOf(i),
                                                      ![i].saw = temp]
             \/ /\ table' = table
                /\ invocations' = [invocations EXCEPT ![i].pc = "raised",
                                                      ![i].err = "merge",
                                                      ![i].read = ReadOf(i),
                                                      ![i].saw = temp]
    /\ UNCHANGED <<uploadVars, parseVars, listVars, temp_loader, overlapped, job, pc,
                   tableExists, temp, tempExists, callVars, loopVars>>

\* client.delete_table(temp_table_id, not_found_ok=True) (utils.py line 132)
RaceDrop ==
    /\ job = "process_users"
    /\ pc = "race"
    /\ \E i \in Invocations :
          /\ invocations[i].pc = "drop"
          /\ \/ /\ tempExists' = FALSE
                /\ temp' = EmptyBag
                /\ Goes(i, "count")
             \/ /\ Raises(i, "drop")
                /\ UNCHANGED <<temp, tempExists>>
    /\ UNCHANGED <<uploadVars, parseVars, listVars, temp_loader, overlapped, job, pc,
                   table, tableExists, callVars, loopVars>>

\* table = client.get_table(table_id); return table.num_rows (lines 136-137)
RaceCount ==
    /\ job = "process_users"
    /\ pc = "race"
    /\ \E i \in Invocations :
          /\ invocations[i].pc = "count"
          /\ \/ invocations' = [invocations EXCEPT ![i].pc = "done",
                                                   ![i].num_rows = Size(table)]
             \/ Raises(i, "count")
    /\ UNCHANGED <<uploadVars, parseVars, listVars, temp_loader, overlapped, job, pc,
                   warehouseVars, callVars, loopVars>>

NextRace ==
    \/ RaceStart
    \/ RaceLoad
    \/ RaceEnsure
    \/ RaceMerge
    \/ RaceDrop
    \/ RaceCount

SpecRace == InitRace /\ [][NextRace]_vars

---------------------------------------------------------------------------
(* Properties of concurrent invocations (SpecRace) *)

\* the MERGE of invocation i has read the temporary table
Merged(i) == invocations[i].read # "none"

\* the MERGE of invocation i did not read the rows that i had loaded
BadMerge(i) ==
    /\ Merged(i)
    /\ \/ invocations[i].read \in {"other", "missing"}
       \/ invocations[i].saw # SeqToBag(invocations[i].df)

\* C20: overlapping runs of the same job are unsafe, runs one at a time are
\* not.  As long as no invocation started while another was running, every
\* MERGE has read the temporary table as its own invocation loaded it, with
\* exactly the rows of that invocation's DataFrame; a MERGE that reads the
\* rows another invocation loaded, or finds the temporary table dropped,
\* happens only after an overlap.
C20_OverlapUnsafe ==
    job = "process_users" /\ pc = "race" =>
        \A i \in Invocations : BadMerge(i) => overlapped

\* C20 witness: two overlapping invocations; the MERGE of one read the rows
\* the other had loaded, and the MERGE of the other found the temporary
\* table dropped
C20_Witness ==
    /\ job = "process_users"
    /\ pc = "race"
    /\ overlapped
    /\ \E i \in Invocations :
          /\ invocations[i].read = "other"
          /\ invocations[i].saw # SeqToBag(invocations[i].df)
    /\ \E i \in Invocations :
          /\ invocations[i].read = "missing"
          /\ invocations[i].err = "merge"

---------------------------------------------------------------------------
(* First run of load_to_bigquery (SpecLoad) *)

\* C21: self-bootstrapping first run.  In the first call, which finds no
\* permanent table, the table exists before the MERGE runs; after the MERGE
\* it holds exactly the rows of the staged batch, under the declared
\* columns and one row per distinct key, and the call returns the row count
\* of the table as it is after the MERGE.
C21_FirstRunBootstraps ==
    (job = "process_batch" /\ runs = 1) =>
        /\ pc = "merge" => tableExists
        /\ pc \in {"drop", "count", "done"} =>
              /\ tableExists
              /\ table = SeqToBag(staged)
              /\ \A r \in DOMAIN table :
                    /\ DOMAIN r = Columns
                    /\ table[r] = 1
              /\ Cardinality(KeysIn(table, SummaryMergeKeys)) = Size(table)
        /\ pc = "done" => num_rows = Size(table)

---------------------------------------------------------------------------
(* The load into the temporary table (SpecLoad) *)

\* C22: the temporary-table load overwrites.  From the load step to the
\* MERGE the temporary table holds exactly the rows of the staged file,
\* whatever it held before; the MERGE therefore brings the rows of this
\* call's batch, and no others, into the permanent table.
C22_TempLoadOverwrites ==
    job = "process_batch" =>
        /\ pc \in {"ensure", "merge"} =>
              /\ tempExists
              /\ staged = batch_data
              /\ temp = SeqToBag(staged)
        /\ pc = "drop" =>
              /\ table = merge_query(tablePre, SeqToBag(batch_data), SummaryMergeKeys)
              /\ \A r \in DOMAIN table :
                    \/ r \in DOMAIN tablePre
                    \/ \E i \in 1..Len(batch_data) : batch_data[i] = r

\* C22 witness: the call before this one raised and left rows in the
\* temporary table that are not in this call's batch; this call's MERGE ran
\* and none of those rows is in the permanent table
C22_Witness ==
    /\ job = "process_batch"
    /\ pc = "drop"
    /\ ~prev.ok
    /\ \E r \in DOMAIN prev.temp :
          /\ r \notin DOMAIN SeqToBag(batch_data)
          /\ r \notin DOMAIN temp
          /\ r \notin DOMAIN table

---------------------------------------------------------------------------
(* The two-day scenario of the summary pipeline (SpecSummary) *)

\* the rows of a range of two days in which each daily window returned one
\* record with two leaf groups
TwoDayRows ==
    parse_summary_json(PayloadTwoLeaves, start_date)
        \o parse_summary_json(PayloadTwoLeaves, start_date + 1)

\* the run over a range of two days has ended without raising, and each of
\* its windows returned one record with two leaf groups
TwoDayScenario ==
    /\ job = "process_summary_report"
    /\ pc = "finished"
    /\ end_date - start_date = 2
    /\ ClosedRows(closed) = TwoDayRows

\* C23: end-to-end scenario.  A run over a range of two days, each daily
\* window returning one record with 2 leaf groups, on an absent permanent
\* table: 2 windows are fetched, 4 flat rows are emitted, exactly one batch
\* is closed, one file is staged, one MERGE inserts the 4 rows, and the
\* resulting row count is 4.
C23_TwoDayScenario ==
    TwoDayScenario =>
        /\ Len(windows) = 2
        /\ Len(TwoDayRows) = 4
        /\ Len(closed) = 1
        /\ closed[1].rows = TwoDayRows
        /\ runs = 1
        /\ staged = TwoDayRows
        /\ tablePre = EmptyBag
        /\ table = SeqToBag(TwoDayRows)
        /\ Size(table) = 4
        /\ num_rows = 4
        /\ total_records = 4
        /\ ~tempExists

\* C23 witness: the scenario has run to its end
C23_Witness ==
    /\ TwoDayScenario
    /\ err = "none"
    /\ last_response.status_code = 200
    /\ last_response.data = PayloadTwoLeaves
    /\ windows = <<<<start_date, start_date + 1>>, <<start_date + 1, end_date>>>>

---------------------------------------------------------------------------
(* Nested objects of a project record (SpecFlatten) *)

\* the nested singular objects of a project that are flattened
NestedFields == {"hourlyRate", "estimate", "timeEstimate"}

\* C24: nested singular objects are flattened with the parent prefix.  For
\* every project record and every nested object hourlyRate, estimate,
\* timeEstimate it carries, the column <object>_<field> of the record's row
\* holds the value of the project's own nested field, whatever the
\* record's memberships array contains.
C24_NestedPrefix ==
    (job = "fetch_clockify_projects" /\ pc = "returned") =>
        /\ Len(batch_data) = Len(all_items)
        /\ \A i \in 1..Len(all_items) : \A field \in NestedFields :
              (field \in DOMAIN all_items[i] /\ IsDict(all_items[i][field])) =>
                  \A subkey \in DOMAIN Content(all_items[i][field]) :
                      /\ (field \o "_" \o subkey) \in DOMAIN batch_data[i]
                      /\ batch_data[i][field \o "_" \o subkey]
                            = Content(all_items[i][field])[subkey]

---------------------------------------------------------------------------
(* The hours column of parse_summary_json (SpecParse) *)

\* the durations of the nodes the rows are emitted for, in the order of the
\* rows, as the report carries them (null and missing included)
RECURSIVE DurationsOfTags(_)
DurationsOfTags(tag_groups) ==
    IF tag_groups = <<>> THEN <<>>
    ELSE <<Head(tag_groups).duration>> \o DurationsOfTags(Tail(tag_groups))

RECURSIVE DurationsOfProjects(_)
DurationsOfProjects(project_groups) ==
    IF project_groups = <<>> THEN <<>>
    ELSE (IF Head(project_groups).children = <<>>
          THEN <<Head(project_groups).duration>>
          ELSE DurationsOfTags(Head(project_groups).children))
         \o DurationsOfProjects(Tail(project_groups))

RECURSIVE DurationsOfUsers(_)
DurationsOfUsers(group_one) ==
    IF group_one = <<>> THEN <<>>
    ELSE DurationsOfProjects(Head(group_one).children)
         \o DurationsOfUsers(Tail(group_one))

\* C25: hours derivation.  The time_decimal of every emitted row, tag-level
\* or tagless project-level, is the source node's duration divided by
\* 3,600,000 when that duration is a non-zero number, and is 0, not null,
\* when the duration is null, zero or absent.
C25_HoursDerivation ==
    (job = "parse_summary_json" /\ pc = "returned") =>
        LET durations == DurationsOfUsers(report.groupOne)
        IN  /\ Len(batch_data) = Len(durations)
            /\ \A i \in 1..Len(batch_data) :
                  batch_data[i].time_decimal =
                      (IF durations[i] \in {NullNum, AbsentNum, 0}
                       THEN [num |-> 0, den |-> 1]
                       ELSE Fraction(durations[i], 3600000))

\* C25 witness: a report was parsed into tag-level and tagless rows, among
\* them rows of a null source duration and rows of a fraction of an hour
C25_Witness ==
    /\ job = "parse_summary_json"
    /\ pc = "returned"
    /\ \E i, j, k, l \in 1..Len(batch_data) :
          /\ batch_data[i].tag_id # Null
          /\ batch_data[i].duration_ms = NullNum
          /\ batch_data[i].time_decimal = Zero
          /\ batch_data[j].tag_id = Null
          /\ batch_data[j].duration_ms = NullNum
          /\ batch_data[j].time_decimal = Zero
          /\ batch_data[k].tag_id # Null
          /\ batch_data[k].time_decimal = [num |-> 1, den |-> 2]
          /\ batch_data[l].tag_id = Null
          /\ batch_data[l].time_decimal = [num |-> 1, den |-> 4]

---------------------------------------------------------------------------
(* A failed day fetch and the stored rows of that day (SpecCsv) *)

\* in a range of two days of which exactly one was fetched: the first day of
\* the window whose request was answered non-200
FailedDay ==
    IF last_response.status_code = 200 THEN windows[1][1] ELSE windows[2][1]

\* C26: a failed day fetch never destroys stored data.  When the fetch of
\* one day window of the range failed and the other succeeded, the rows the
\* permanent table held for the failed day before the job are still in it
\* after the job's MERGE.
C26_FailedFetchKeepsData ==
    (job = "clockify_to_bigquery" /\ pc \in {"drop", "count", "done"}
        /\ Len(windows) = 2 /\ Len(all_data) = 1)
        => \A r \in DOMAIN tablePre :
              r.date = FailedDay => (r \in DOMAIN table /\ table[r] = tablePre[r])

---------------------------------------------------------------------------
(* Rows and batches of process_summary_report (SpecSummary) *)

\* the rows of a sequence are dated inside [first, last)
DatedWithin(rows, first, last) ==
    \A i \in 1..Len(rows) : first <= rows[i].date /\ rows[i].date < last

\* C27: no row is lost or duplicated across batches.  The rows parsed from
\* a successfully fetched window are appended once to the rows the run has
\* collected, and no other step changes what was collected; every batch
\* handed to process_batch holds the rows of the windows of its span; the
\* accumulator is empty whenever the day loop exits, so no batch is ever
\* closed by the flush after the loop; a run that ends without raising has
\* handed every collected row to process_batch.
C27_NoRowLostOrDuplicated ==
    /\ [][job = "process_summary_report" =>
            IF current_date' # current_date
            THEN Collected' = Collected \o
                    (IF last_response'.status_code = 200
                     THEN parse_summary_json(last_response'.data, current_date)
                     ELSE <<>>)
            ELSE Collected' = Collected]_vars
    /\ [](job = "process_summary_report" =>
            /\ \A i \in 1..Len(closed) :
                  /\ DatedWithin(closed[i].rows, closed[i].first, closed[i].last)
                  /\ ~closed[i].final
            /\ pc = "fetch" =>
                  /\ DatedWithin(batch_data, batch_start_date, current_date)
                  /\ ~InRange(current_date, end_date) => batch_data = <<>>
            /\ pc = "finished" =>
                  /\ Collected = ClosedRows(closed)
                  /\ runs = Cardinality({i \in 1..Len(closed) : closed[i].rows # <<>>})
                  /\ total_records = Len(Collected))

\* C27 witness: a run has ended without raising after it handed rows to
\* process_batch in two batches
C27_Witness ==
    /\ job = "process_summary_report"
    /\ pc = "finished"
    /\ err = "none"
    /\ Len(closed) >= 2
    /\ closed[1].rows # <<>>
    /\ closed[2].rows # <<>>
    /\ runs = 2
    /\ Len(Collected) = Len(closed[1].rows) + Len(closed[2].rows)

---------------------------------------------------------------------------
(* The result string of process_summary_report (SpecSummary) *)

\* C28: result accounting.  In the result string of a run that has ended,
\* the number of total records is the number of rows handed to
\* process_batch over the run, and the number of batches is the number of
\* batches that were closed during the run.
C28_ResultAccounting ==
    (job = "process_summary_report" /\ pc = "finished") =>
        result = SummaryResult(start_date, end_date, Len(ClosedRows(closed)), Len(closed))

---------------------------------------------------------------------------
(* How upload_to_gcs ends (SpecUpload) *)

\* the full path of the object upload_to_gcs writes
FullPath == <<"gs://", "bucket", "/", "clockify_data", "/", "today", "/", "file.parquet">>

\* C29: upload_to_gcs always ends decisively.  It makes at most 3 upload
\* attempts; the first successful attempt is the last one, and the call
\* returns the full gs:// path of the object; otherwise it raises the error
\* of its last attempt.  It never returns without a path, every sleep is
\* followed by another attempt, and nothing happens after it has returned
\* or raised.
C29_EndsDecisively ==
    /\ [](job = "upload_to_gcs" =>
            /\ uploads <= 3
            /\ pc \in {"try", "returned", "raised"}
            /\ pc = "try" =>
                  /\ uploads < 3
                  /\ Len(errors) = uploads
                  /\ Len(sleeps) = uploads
                  /\ gcs_uri = <<>>
            /\ pc = "returned" =>
                  /\ Len(errors) = uploads - 1
                  /\ Len(sleeps) = uploads - 1
                  /\ gcs_uri = FullPath
                  /\ staged = batch_data
                  /\ raised = <<>>
                  /\ err = "none"
            /\ pc = "raised" =>
                  /\ Len(errors) = uploads
                  /\ Len(sleeps) = uploads - 1
                  /\ raised = errors[Len(errors)]
                  /\ err = "upload"
                  /\ gcs_uri = <<>>)
    /\ [][~(job = "upload_to_gcs" /\ pc \in {"returned", "raised"})]_vars

\* C29 witness: the third attempt, made after two failures and sleeps of 2s
\* and 4s, succeeded and the path was returned
C29_Witness ==
    /\ job = "upload_to_gcs"
    /\ pc = "returned"
    /\ uploads = 3
    /\ Len(errors) = 2
    /\ sleeps = <<2, 4>>
    /\ gcs_uri = FullPath

---------------------------------------------------------------------------
(* Rows and memberships of users and projects (SpecFlatten) *)

\* the memberships array of a raw record
MembershipsOf(record) ==
    IF "memberships" \in DOMAIN record THEN record["memberships"][2] ELSE <<>>

\* the prefix under which a job copies the fields of a membership
MembershipPrefix(j) == IF j = "fetch_clockify_users" THEN "membership_" ELSE ""

\* the <<column, value>> cells that copying a membership's fields sets: a
\* plain field under its name, the fields of a nested object under
\* <name>_<field>
MembershipCells(prefix, membership) ==
    {<<prefix \o key, membership[key]>> :
         key \in {k \in DOMAIN membership : membership[k][1] = "scalar"}}
    \cup UNION {{<<prefix \o key \o "_" \o subkey, membership[key][2][subkey]>> :
                     subkey \in DOMAIN membership[key][2]} :
                key \in {k \in DOMAIN membership : membership[k][1] = "dict"}}

\* C30: one row per list entity.  fetch_clockify_users and
\* fetch_clockify_projects emit exactly one row per raw record, in input
\* order and under the record's id, however many memberships the record
\* has; the row carries the fields of the first membership, and a field of
\* a further membership is in the row only where the first membership or
\* the record itself has the same value.
C30_OneRowPerEntity ==
    (job \in {"fetch_clockify_users", "fetch_clockify_projects"} /\ pc = "returned") =>
        /\ Len(batch_data) = Len(all_items)
        /\ \A i \in 1..Len(all_items) :
              LET memberships == MembershipsOf(all_items[i])
                  prefix      == MembershipPrefix(job)
                  row         == batch_data[i]
              IN  /\ row["id"] = all_items[i]["id"]
                  /\ memberships # <<>> =>
                        \A cell \in MembershipCells(prefix, memberships[1]) :
                            /\ cell[1] \in DOMAIN row
                            /\ row[cell[1]] = cell[2]
                  /\ \A n \in 2..Len(memberships) :
                        \A cell \in MembershipCells(prefix, memberships[n]) :
                            (cell[1] \in DOMAIN row /\ row[cell[1]] = cell[2]) =>
                                \/ cell \in MembershipCells(prefix, memberships[1])
                                \/ /\ cell[1] \in DOMAIN all_items[i]
                                   /\ all_items[i][cell[1]] = cell[2]

\* C30 witness: of two raw records one has two memberships with different
\* fields; two rows were emitted, and its row carries the first
\* membership's target
C30_Witness ==
    /\ job \in {"fetch_clockify_users", "fetch_clockify_projects"}
    /\ pc = "returned"
    /\ Len(all_items) = 2
    /\ Len(batch_data) = 2
    /\ \E i \in 1..2 :
          LET memberships == MembershipsOf(all_items[i])
          IN  /\ Len(memberships) = 2
              /\ memberships[1] # memberships[2]
              /\ batch_data[i][MembershipPrefix(job) \o "targetId"]
                    = memberships[1]["targetId"]
              /\ batch_data[i][MembershipPrefix(job) \o "targetId"]
                    # memberships[2]["targetId"]

---------------------------------------------------------------------------
(* Termination of the page loop (SpecPaging) *)

\* C31: pagination termination.  The page loop requests the pages 1, 2,
\* 3, ..., each once; it is left at the first answer that is empty or
\* non-200 and no request follows that answer; until such an answer comes
\* the loop goes on to its next request.  So the loop ends whenever the
\* upstream at some point answers with an empty page or an error, and it
\* never ends while the upstream answers every page with records.
C31_PaginationTermination ==
    /\ [](/\ Len(requests) = Len(responses)
          /\ \A i \in 1..Len(requests) : requests[i].page = i
          /\ page = IF FirstEnd = 0 THEN Len(requests) + 1 ELSE Len(requests)
          /\ FirstEnd # 0 => FirstEnd = Len(responses)
          /\ (pc = "page") <=> (FirstEnd = 0)
          /\ pc \in {"page", "flatten"})
    /\ [][pc = "flatten" => UNCHANGED <<requests, responses, page, all_items>>]_vars
    /\ \A n \in 0..(MaxRequests - 1) :
          (pc = "page" /\ Len(requests) = n) ~> (Len(requests) = n + 1)
    /\ <>(FirstEnd # 0) => <>[](pc = "flatten")
    /\ [](FirstEnd = 0) => [](pc = "page")

\* C31 witness: every page before the last request followed held records
\* and that request was answered 200 with an empty page; the loop was left
\* there with the records of all the pages before
C31_Witness ==
    /\ job \in ListJobs
    /\ Len(responses) = MaxRequests
    /\ \A i \in 1..(MaxRequests - 1) : responses[i].content # <<>>
    /\ responses[MaxRequests] = [status_code |-> 200, content |-> <<>>]
    /\ all_items = PagesUpTo(MaxRequests - 1)
    /\ page = MaxRequests
    /\ pc = "flatten"
=============================================================================
